---- MODULE Spec2Model ----
(***************************************************************************)
(* Model of the paper-summarizer core: one document's run through          *)
(* process_pdf (pipeline.py), call_llm with its transient-retry wrapper    *)
(* and JSON syntax repair (llm.py), and the response schema (models.py).   *)
(*                                                                         *)
(* Texts are sequences of characters over a small alphabet.  A completion  *)
(* reply is such a text; json.loads is modelled by a recursive-descent     *)
(* parser of the object grammar                                            *)
(*     Object ::= { Item* }            Item ::= m | k Object               *)
(* where m stands for a complete member with a scalar value and k for a    *)
(* key (with its colon) whose value is the object that follows.  p is a    *)
(* prose character and f a code-fence (backtick) character: neither is     *)
(* JSON.                                                                   *)
(***************************************************************************)
EXTENDS Integers, Sequences, FiniteSets, TLC

VARIABLES
    config,          \* Config: extractor, reparse, max_chars, skill_data_dir_exists
    pdf_path,        \* the document being processed
    cache,           \* the cache sidecar next to the document
    pc,              \* where process_pdf is: start, refs, complete, repair, validate, done
    stages,          \* the stages entered so far, in order
    engine_log,      \* the extraction engines parse_pdf ran, with their outcomes
    paper_text,      \* what parse_pdf returned (embedded in the prompt)
    attempt,         \* _complete_with_retries: the loop variable attempt
    call_log,        \* the completion attempts and sleeps of the current call_llm
    parse_exc,       \* call_llm: the LLMError of the first reply
    schema_attempt,  \* _validate_with_schema_repair: the loop variable attempt
    current,         \* _validate_with_schema_repair: the payload under validation
    n_complete,      \* client.complete invocations so far
    n_failed,        \* failed completions inside _complete_with_retries so far
    n_json_repair,   \* JSON syntax-repair requests sent so far
    n_validate,      \* LLMResponse(**current) constructions attempted so far
    n_schema_repair, \* schema-repair prompts sent so far
    outcome,         \* what process_pdf returned or raised
    dec_pc,          \* decode harness: input before _extract_json ran, done after
    dec_text,        \* decode harness: the raw text handed to _extract_json
    dec_out,         \* decode harness: what _extract_json returned or raised
    val_pc,          \* validation harness: input before the payload is validated, done after
    val_path,        \* validation harness: the document the payload is about
    val_raw,         \* validation harness: the payload as call_llm returned it
    val_out,         \* validation harness: the normalized payload and whether LLMResponse accepted it
    val_again,       \* validation harness: val_out's payload after the normalizers ran on it once more
    prs_pc,          \* parse harness: first, again (one call made), done (two calls made)
    prs_cache,       \* parse harness: the cache sidecar
    prs_last,        \* parse harness: the last parse_pdf call, its arguments and its result
    prs_extracted,   \* parse harness: the text of the last extraction that succeeded
    max_workers,     \* worker pool: ThreadPoolExecutor(max_workers=config.workers)
    job_extractor,   \* worker pool: the extraction strategy of each job
    job_pc,          \* worker pool: where each job's process_pdf call is
    docling_lock,    \* worker pool: the job holding _DOCLING_LOCK, 0 when it is free
    bat_pc,          \* batch: where _run_batch is
    bat_config,      \* batch: force_summary, dry_run, and whether source_dir exists
    index_file,      \* batch: the documents listed in processed.txt on disk
    processed_set,   \* batch: run_batch's in-memory index
    jobs,            \* batch: the documents selected for processing
    futures,         \* batch: the submitted documents whose future is not handled yet
    bat_cur,         \* batch: the document whose future is being handled, 0 for none
    out_files,       \* batch: the summary files under output_dir, each with the document it holds (0: older content)
    report,          \* batch: n_processed, n_skipped, n_failed, failed_papers
    exit_code,       \* batch: the exit status of the command, -1 while it runs
    bat_log          \* batch: what happened to each document, in order

run_vars == <<config, pdf_path, cache, pc, stages, engine_log, paper_text,
              attempt, call_log, parse_exc, schema_attempt, current, n_complete,
              n_failed, n_json_repair, n_validate, n_schema_repair, outcome>>
dec_vars == <<dec_pc, dec_text, dec_out>>
val_vars == <<val_pc, val_path, val_raw, val_out, val_again>>
prs_vars == <<prs_pc, prs_cache, prs_last, prs_extracted>>
wrk_vars == <<max_workers, job_extractor, job_pc, docling_lock>>
bat_vars == <<bat_pc, bat_config, index_file, processed_set, jobs, futures,
              bat_cur, out_files, report, exit_code, bat_log>>
harness_vars == <<dec_vars, val_vars, prs_vars, wrk_vars, bat_vars>>
vars == <<run_vars, harness_vars>>

(***************************************************************************)
(* Bounds                                                                  *)
(***************************************************************************)
MaxTextLen == 5
MaxReplyLen == 3
\* Longest document text of the extraction harness, and its largest budget.
MaxDocLen == 2
MaxBudget == 2
\* Most documents submitted to the worker pool, and most worker threads.
MaxJobs == 2
MaxWorkers == 2
\* Most documents found under the source directory of a batch.
MaxPdfs == 2

(***************************************************************************)
(* Characters and texts                                                    *)
(***************************************************************************)
Chars == {"{", "}", "m", "k", "p", "f"}

TextsUpTo(n) == UNION {[1..l -> Chars] : l \in 0..n}

\* str.find(ch): 0-based index of the first occurrence, -1 when absent.
str_find(text, ch) ==
    IF \E i \in 1..Len(text) : text[i] = ch
    THEN (CHOOSE i \in 1..Len(text) :
            text[i] = ch /\ \A j \in 1..(i - 1) : text[j] # ch) - 1
    ELSE 0 - 1

\* str.rfind(ch): 0-based index of the last occurrence, -1 when absent.
str_rfind(text, ch) ==
    IF \E i \in 1..Len(text) : text[i] = ch
    THEN (CHOOSE i \in 1..Len(text) :
            text[i] = ch /\ \A j \in (i + 1)..Len(text) : text[j] # ch) - 1
    ELSE 0 - 1

\* ch in text
Contains(text, ch) == \E i \in 1..Len(text) : text[i] = ch

\* Python slice text[a:b] for 0 <= a, 0 <= b (empty when a >= b).
str_slice(text, a, b) ==
    LET hi == IF b > Len(text) THEN Len(text) ELSE b
    IN  SubSeq(text, a + 1, hi)

(***************************************************************************)
(* json.loads / json.dumps on the object grammar                           *)
(***************************************************************************)
Leaf == [leaf |-> TRUE, sub |-> <<>>]
Node(items) == [leaf |-> FALSE, sub |-> items]

ParseFail == [ok |-> FALSE, val |-> <<>>, next |-> 0]

RECURSIVE ParseItems(_, _)
\* Parses Item* and the closing brace from position i (1-based); next is the
\* position after that brace.
ParseItems(s, i) ==
    IF i > Len(s) THEN ParseFail
    ELSE IF s[i] = "}" THEN [ok |-> TRUE, val |-> <<>>, next |-> i + 1]
    ELSE IF s[i] = "m" THEN
        LET rest == ParseItems(s, i + 1)
        IN  IF rest.ok
            THEN [ok |-> TRUE, val |-> <<Leaf>> \o rest.val, next |-> rest.next]
            ELSE ParseFail
    ELSE IF s[i] = "k" /\ i + 1 <= Len(s) /\ s[i + 1] = "{" THEN
        LET inner == ParseItems(s, i + 2)
        IN  IF ~inner.ok THEN ParseFail
            ELSE LET rest == ParseItems(s, inner.next)
                 IN  IF rest.ok
                     THEN [ok |-> TRUE,
                           val |-> <<Node(inner.val)>> \o rest.val,
                           next |-> rest.next]
                     ELSE ParseFail
    ELSE ParseFail

\* json.loads on a candidate: exactly one object, nothing after it.
json_loads(s) ==
    IF Len(s) >= 1 /\ s[1] = "{"
    THEN LET r == ParseItems(s, 2)
         IN  IF r.ok /\ r.next = Len(s) + 1
             THEN [ok |-> TRUE, val |-> r.val]
             ELSE [ok |-> FALSE, val |-> <<>>]
    ELSE [ok |-> FALSE, val |-> <<>>]

RECURSIVE DumpItems(_)
DumpItems(items) ==
    IF items = <<>> THEN <<>>
    ELSE LET h == Head(items)
         IN  (IF h.leaf THEN <<"m">>
              ELSE <<"k", "{">> \o DumpItems(h.sub) \o <<"}">>)
             \o DumpItems(Tail(items))

\* json.dumps of a parsed object.
json_dumps(obj) == <<"{">> \o DumpItems(obj) \o <<"}">>

(***************************************************************************)
(* _extract_json                                                           *)
(***************************************************************************)
NoJsonFound == "No JSON object found in LLM response"
FailedToParse == "Failed to parse LLM response as JSON"

Decoded(obj) == [ok |-> TRUE, val |-> obj, err |-> "none"]
DecodeError(msg) == [ok |-> FALSE, val |-> <<>>, err |-> msg]

_extract_json_first_close(text) ==
    LET start == str_find(text, "{")
        end == str_find(text, "}")
    IN  IF start = 0 - 1 \/ end = 0 - 1
        THEN DecodeError(NoJsonFound)
        ELSE LET parsed == json_loads(str_slice(text, start, end + 1))
             IN  IF parsed.ok THEN Decoded(parsed.val)
                 ELSE DecodeError(FailedToParse)

_extract_json_any_missing_pair(text) ==
    LET start == str_find(text, "{")
        end == str_rfind(text, "}")
    IN  IF start = 0 - 1 /\ end = 0 - 1
        THEN DecodeError(NoJsonFound)
        ELSE LET parsed == json_loads(str_slice(text, start, end + 1))
             IN  IF parsed.ok THEN Decoded(parsed.val)
                 ELSE DecodeError(FailedToParse)

_extract_json(text) ==
    LET start == str_find(text, "{")
        end == str_rfind(text, "}")
    IN  IF start = 0 - 1 \/ end = 0 - 1
        THEN DecodeError(NoJsonFound)
        ELSE LET parsed == json_loads(str_slice(text, start, end + 1))
             IN  IF parsed.ok THEN Decoded(parsed.val)
                 ELSE DecodeError(FailedToParse)

(***************************************************************************)
(* Payload values.  A metadata string is a sequence of tokens:             *)
(*   a  one lowercase letter        A  one uppercase letter                *)
(*   9  one digit outside a year    y  the four digits 2024                *)
(*   z  the four digits 1999        u  the lowercase word unknown          *)
(*   w  the lowercase word paper    -  one punctuation character           *)
(*   s  one whitespace character                                           *)
(* A JSON value is an int, a str or anything else (null, missing, ...).    *)
(***************************************************************************)
IntV(n) == [t |-> "int", n |-> n, s |-> <<>>]
StrV(str) == [t |-> "str", n |-> 0, s |-> str]
NoneV == [t |-> "none", n |-> 0, s |-> <<>>]

IsDigitTok(c) == c \in {"9", "y", "z"}
IsLetterTok(c) == c \in {"a", "A", "u", "w"}
IsAlnumTok(c) == IsDigitTok(c) \/ IsLetterTok(c)
IsYearTok(c) == c \in {"y", "z"}
YearOfTok(c) == IF c = "y" THEN 2024 ELSE 1999

\* str(n) for the integers the model uses.
int_str(n) == IF n = 2024 THEN <<"y">> ELSE IF n = 1999 THEN <<"z">> ELSE <<"9">>

\* str.lower()
str_lower(str) == [i \in 1..Len(str) |-> IF str[i] = "A" THEN "a" ELSE str[i]]

RECURSIVE str_lstrip(_)
str_lstrip(str) ==
    IF str # <<>> /\ Head(str) = "s" THEN str_lstrip(Tail(str)) ELSE str

RECURSIVE str_rstrip(_)
str_rstrip(str) ==
    IF str # <<>> /\ str[Len(str)] = "s"
    THEN str_rstrip(SubSeq(str, 1, Len(str) - 1)) ELSE str

\* str.strip()
str_strip(str) == str_rstrip(str_lstrip(str))

RECURSIVE AlnumTokens(_, _, _)
\* re.split(r"[^A-Za-z0-9]+", value), empty pieces dropped: the maximal runs
\* of alphanumeric tokens, in order.  cur is the run being read.
AlnumTokens(str, i, cur) ==
    IF i > Len(str) THEN (IF cur = <<>> THEN <<>> ELSE <<cur>>)
    ELSE IF IsAlnumTok(str[i]) THEN AlnumTokens(str, i + 1, Append(cur, str[i]))
    ELSE (IF cur = <<>> THEN <<>> ELSE <<cur>>) \o AlnumTokens(str, i + 1, <<>>)

HasLetter(tok) == \E i \in 1..Len(tok) : IsLetterTok(tok[i])

\* pipeline._first_alnum_token
_first_alnum_token(value) ==
    LET toks == AlnumTokens(value, 1, <<>>)
        hits == {i \in 1..Len(toks) : HasLetter(toks[i])}
    IN  IF hits = {} THEN <<>>
        ELSE str_lower(toks[CHOOSE i \in hits : \A j \in hits : i <= j])

\* pipeline._author_surname_token
_author_surname_token(author_name) ==
    LET toks == AlnumTokens(author_name, 1, <<>>)
        hits == {i \in 1..Len(toks) : HasLetter(toks[i])}
    IN  IF hits = {} THEN <<>>
        ELSE str_lower(toks[CHOOSE i \in hits : \A j \in hits : i >= j])

NoYear == [found |-> FALSE, year |-> 0]

\* pipeline._extract_year_candidate: the first 19xx/20xx group with no digit
\* on either side; nothing for a value that is not a str.
_extract_year_candidate(value) ==
    IF value.t # "str" THEN NoYear
    ELSE LET str == value.s
             hits == {i \in 1..Len(str) :
                        /\ IsYearTok(str[i])
                        /\ (i = 1 \/ ~IsDigitTok(str[i - 1]))
                        /\ (i = Len(str) \/ ~IsDigitTok(str[i + 1]))}
         IN  IF hits = {} THEN NoYear
             ELSE [found |-> TRUE,
                   year |-> YearOfTok(str[CHOOSE i \in hits : \A j \in hits : i <= j])]

\* A document: the stem of its file name.  Path.name adds the .pdf suffix.
path_name(path) == path.stem \o <<"-", "a">>

NotMapping ==
    [mapping |-> FALSE, citation_key |-> NoneV, title |-> NoneV,
     authors |-> <<>>, authors_is_list |-> FALSE, year |-> NoneV,
     rest_ok |-> FALSE, is_research_paper |-> FALSE, paper_type |-> "null",
     rejection_reason |-> "null"]

_normalize_metadata_year_without_fallback(raw, path) ==
    LET metadata == raw.metadata
    IN  IF ~metadata.mapping THEN raw
        ELSE IF metadata.year.t = "int" THEN raw
        ELSE LET c1 == _extract_year_candidate(metadata.year)
                 c2 == _extract_year_candidate(metadata.title)
                 c3 == _extract_year_candidate(StrV(path_name(path)))
                 c4 == _extract_year_candidate(metadata.citation_key)
             IN  IF c1.found THEN [raw EXCEPT !.metadata.year = IntV(c1.year)]
                 ELSE IF c2.found THEN [raw EXCEPT !.metadata.year = IntV(c2.year)]
                 ELSE IF c3.found THEN [raw EXCEPT !.metadata.year = IntV(c3.year)]
                 ELSE IF c4.found THEN [raw EXCEPT !.metadata.year = IntV(c4.year)]
                 ELSE raw

_normalize_metadata_year_key_before_filename(raw, path) ==
    LET metadata == raw.metadata
    IN  IF ~metadata.mapping THEN raw
        ELSE IF metadata.year.t = "int" THEN raw
        ELSE LET c1 == _extract_year_candidate(metadata.year)
                 c2 == _extract_year_candidate(metadata.title)
                 c3 == _extract_year_candidate(StrV(path_name(path)))
                 c4 == _extract_year_candidate(metadata.citation_key)
                 normalized == IF c1.found THEN c1.year
                               ELSE IF c2.found THEN c2.year
                               ELSE IF c4.found THEN c4.year
                               ELSE IF c3.found THEN c3.year
                               ELSE 0
             IN  [raw EXCEPT !.metadata.year = IntV(normalized)]

\* pipeline._normalize_metadata_year
_normalize_metadata_year(raw, path) ==
    LET metadata == raw.metadata
    IN  IF ~metadata.mapping THEN raw
        ELSE IF metadata.year.t = "int" THEN raw
        ELSE LET c1 == _extract_year_candidate(metadata.year)
                 c2 == _extract_year_candidate(metadata.title)
                 c3 == _extract_year_candidate(StrV(path_name(path)))
                 c4 == _extract_year_candidate(metadata.citation_key)
                 normalized == IF c1.found THEN c1.year
                               ELSE IF c2.found THEN c2.year
                               ELSE IF c3.found THEN c3.year
                               ELSE IF c4.found THEN c4.year
                               ELSE 0
             IN  [raw EXCEPT !.metadata.year = IntV(normalized)]

Placeholders == {<<"u">>}

\* pipeline._is_valid_citation_key
_is_valid_citation_key(value) ==
    IF value.t # "str" THEN FALSE
    ELSE LET stripped == str_strip(value.s)
         IN  /\ stripped # <<>>
             /\ str_lower(stripped) \notin Placeholders
             /\ stripped[1] \in {"a", "u", "w"}
             /\ \A i \in 1..Len(stripped) :
                    stripped[i] \in {"a", "u", "w", "9", "y", "z"}

\* str(value) for a title that is truthy.
val_str(value) == IF value.t = "str" THEN value.s ELSE int_str(value.n)

\* Python truthiness of a metadata value.
Truthy(value) ==
    \/ value.t = "str" /\ value.s # <<>>
    \/ value.t = "int" /\ value.n # 0

OrPaper(tok) == IF tok = <<>> THEN <<"w">> ELSE tok

\* pipeline._build_citation_key
_build_citation_key(metadata, path) ==
    LET year == IF metadata.year.t = "int" THEN metadata.year.n ELSE 0
        first_author_token ==
            IF metadata.authors_is_list /\ metadata.authors # <<>>
            THEN OrPaper(_author_surname_token(metadata.authors[1]))
            ELSE <<"w">>
        title_token0 ==
            IF Truthy(metadata.title)
            THEN _first_alnum_token(val_str(metadata.title))
            ELSE <<"w">>
        title_token ==
            IF title_token0 = <<>>
            THEN OrPaper(_first_alnum_token(path.stem))
            ELSE title_token0
    IN  str_lower(first_author_token \o int_str(year) \o title_token)

\* pipeline._normalize_citation_key
_normalize_citation_key(raw, path) ==
    LET metadata == raw.metadata
    IN  IF ~metadata.mapping THEN raw
        ELSE IF _is_valid_citation_key(metadata.citation_key) THEN raw
        ELSE [raw EXCEPT !.metadata.citation_key =
                            StrV(_build_citation_key(metadata, path))]

(***************************************************************************)
(* The response schema (models.py)                                         *)
(***************************************************************************)
PaperType == {"primary", "survey", "commentary"}
Part1Types == PaperType \cup {"non_research"}

_validate_research_gate_lenient(metadata) ==
    IF metadata.is_research_paper
    THEN metadata.paper_type # "null"
    ELSE metadata.paper_type = "null" /\ metadata.rejection_reason \notin {"null", "empty"}

\* PaperMetadata._validate_research_gate
_validate_research_gate(metadata) ==
    IF metadata.is_research_paper
    THEN metadata.paper_type # "null" /\ metadata.rejection_reason = "null"
    ELSE metadata.paper_type = "null" /\ metadata.rejection_reason \notin {"null", "empty"}

\* PaperMetadata: field types, then the research gate.
PaperMetadata(metadata) ==
    /\ metadata.mapping
    /\ metadata.citation_key.t = "str"
    /\ metadata.title.t = "str"
    /\ metadata.authors_is_list
    /\ metadata.year.t = "int"
    /\ metadata.rest_ok
    /\ metadata.paper_type \in PaperType \cup {"null"}
    /\ _validate_research_gate(metadata)

\* SummaryPart1: the discriminator paper_type selects the variant, whose
\* required fields must all be present.  fields names the variant whose
\* required fields the object carries: one variant, all of them, or none.
SummaryPart1(part1) ==
    /\ part1.paper_type \in Part1Types
    /\ part1.fields \in {part1.paper_type, "all"}

\* SummaryPart2 | None: null, or an object with all its fields.
SummaryPart2(part2) == part2 \in {"null", "full"}

_validate_consistency_without_match(r) ==
    IF ~r.metadata.is_research_paper
    THEN r.part1.paper_type = "non_research" /\ r.part2 = "null"
    ELSE /\ ~(r.metadata.paper_type = "primary" /\ r.part2 = "null")
         /\ ~(r.metadata.paper_type \in {"survey", "commentary"} /\ r.part2 # "null")

_validate_consistency_part2_optional(r) ==
    IF ~r.metadata.is_research_paper
    THEN r.part1.paper_type = "non_research" /\ r.part2 = "null"
    ELSE /\ r.part1.paper_type = r.metadata.paper_type
         /\ ~(r.metadata.paper_type \in {"survey", "commentary"} /\ r.part2 # "null")

\* LLMResponse._validate_consistency
_validate_consistency(r) ==
    IF ~r.metadata.is_research_paper
    THEN r.part1.paper_type = "non_research" /\ r.part2 = "null"
    ELSE /\ r.part1.paper_type = r.metadata.paper_type
         /\ ~(r.metadata.paper_type = "primary" /\ r.part2 = "null")
         /\ ~(r.metadata.paper_type \in {"survey", "commentary"} /\ r.part2 # "null")

\* LLMResponse(**current): TRUE when construction succeeds, FALSE when it
\* raises ValidationError.
LLMResponse(payload) ==
    /\ PaperMetadata(payload.metadata)
    /\ SummaryPart1(payload.part1)
    /\ SummaryPart2(payload.part2)
    /\ _validate_consistency(payload)

(***************************************************************************)
(* Exceptions                                                              *)
(***************************************************************************)
Exc(type, msg, cause) == [type |-> type, msg |-> msg, cause |-> cause]
NoExc == Exc("none", "none", "none")

\* models.PipelineError(pdf_path, cause)
PipelineError(path, cause) ==
    [type |-> "PipelineError", pdf_path |-> path, cause |-> cause]

(***************************************************************************)
(* parse_pdf (parser.py).  A document text is a sequence over d (a         *)
(* non-blank character) and s (whitespace).  An engine run is an outcome   *)
(* [ok, text]: the text it extracts, or a failure.                         *)
(***************************************************************************)
AbsentCache == [exists |-> FALSE, content |-> <<>>]
CacheFile(text) == [exists |-> TRUE, content |-> text]

\* Python text[:n], n of either sign.
str_prefix(text, n) ==
    IF n >= 0
    THEN SubSeq(text, 1, IF n < Len(text) THEN n ELSE Len(text))
    ELSE SubSeq(text, 1, IF Len(text) + n > 0 THEN Len(text) + n ELSE 0)

Extracted(text, docling, pypdf) ==
    [ok |-> TRUE, text |-> text, err |-> NoExc,
     docling_called |-> docling, pypdf_called |-> pypdf]
ExtractFailed(err, docling, pypdf) ==
    [ok |-> FALSE, text |-> <<>>, err |-> err,
     docling_called |-> docling, pypdf_called |-> pypdf]

\* parser._run_docling: the markdown, or ParseError wrapping the engine's error.
_run_docling(docling_out) ==
    IF docling_out.ok THEN Extracted(docling_out.text, TRUE, FALSE)
    ELSE ExtractFailed(Exc("ParseError", "Failed to parse {pdf_path}: {e}", "docling engine error"),
                       TRUE, FALSE)

_extract_text_with_pypdf_allowing_empty(pypdf_out) ==
    IF ~pypdf_out.ok
    THEN ExtractFailed(Exc("ParseError", "Failed to parse {pdf_path}: pypdf fallback error: {e}", "pypdf engine error"),
                       FALSE, TRUE)
    ELSE Extracted(str_strip(pypdf_out.text), FALSE, TRUE)

\* parser._extract_text_with_pypdf: the stripped page text; empty text and
\* engine errors are ParseErrors.
_extract_text_with_pypdf(pypdf_out) ==
    IF ~pypdf_out.ok
    THEN ExtractFailed(Exc("ParseError", "Failed to parse {pdf_path}: pypdf fallback error: {e}", "pypdf engine error"),
                       FALSE, TRUE)
    ELSE IF str_strip(pypdf_out.text) = <<>>
    THEN ExtractFailed(Exc("ParseError", "Failed to parse {pdf_path}: pypdf extracted empty text", "none"),
                       FALSE, TRUE)
    ELSE Extracted(str_strip(pypdf_out.text), FALSE, TRUE)

_run_docling_with_fallback_swallowing(docling_out, pypdf_out) ==
    LET first == _run_docling(docling_out)
    IN  IF first.ok THEN first
        ELSE LET second == _extract_text_with_pypdf(pypdf_out)
             IN  IF second.ok THEN Extracted(second.text, TRUE, TRUE)
                 ELSE Extracted(<<>>, TRUE, TRUE)

_run_docling_with_fallback_chaining_fallback(docling_out, pypdf_out) ==
    LET first == _run_docling(docling_out)
    IN  IF first.ok THEN first
        ELSE LET second == _extract_text_with_pypdf(pypdf_out)
             IN  IF second.ok THEN Extracted(second.text, TRUE, TRUE)
                 ELSE ExtractFailed(
                        Exc("ParseError",
                            "Failed to parse {pdf_path}: docling and pypdf fallback failed ({fallback_exc})",
                            second.err.cause),
                        TRUE, TRUE)

\* parser._run_docling_with_fallback
_run_docling_with_fallback(docling_out, pypdf_out) ==
    LET first == _run_docling(docling_out)
    IN  IF first.ok THEN first
        ELSE LET second == _extract_text_with_pypdf(pypdf_out)
             IN  IF second.ok THEN Extracted(second.text, TRUE, TRUE)
                 ELSE ExtractFailed(
                        Exc("ParseError",
                            "Failed to parse {pdf_path}: docling and pypdf fallback failed ({fallback_exc})",
                            first.err.cause),
                        TRUE, TRUE)

_extract_text_falling_back(extractor, docling_out, pypdf_out) ==
    IF extractor = "pypdf" THEN _extract_text_with_pypdf(pypdf_out)
    ELSE _run_docling_with_fallback(docling_out, pypdf_out)

\* parser._extract_text
_extract_text(extractor, docling_out, pypdf_out) ==
    IF extractor = "docling" THEN _run_docling(docling_out)
    ELSE IF extractor = "pypdf" THEN _extract_text_with_pypdf(pypdf_out)
    ELSE _run_docling_with_fallback(docling_out, pypdf_out)

parse_pdf_without_size_test(sidecar, max_chars, reparse, extractor, docling_out, pypdf_out) ==
    IF ~reparse /\ sidecar.exists
    THEN [ok |-> TRUE, text |-> str_prefix(sidecar.content, max_chars),
          err |-> NoExc, cache |-> sidecar,
          docling_called |-> FALSE, pypdf_called |-> FALSE]
    ELSE LET r == _extract_text(extractor, docling_out, pypdf_out)
         IN  IF r.ok
             THEN [ok |-> TRUE, text |-> str_prefix(r.text, max_chars),
                   err |-> NoExc, cache |-> CacheFile(r.text),
                   docling_called |-> r.docling_called,
                   pypdf_called |-> r.pypdf_called]
             ELSE [ok |-> FALSE, text |-> <<>>, err |-> r.err, cache |-> sidecar,
                   docling_called |-> r.docling_called,
                   pypdf_called |-> r.pypdf_called]

parse_pdf_writing_before_extraction(sidecar, max_chars, reparse, extractor, docling_out, pypdf_out) ==
    IF ~reparse /\ sidecar.exists /\ Len(sidecar.content) > 0
    THEN [ok |-> TRUE, text |-> str_prefix(sidecar.content, max_chars),
          err |-> NoExc, cache |-> sidecar,
          docling_called |-> FALSE, pypdf_called |-> FALSE]
    ELSE LET r == _extract_text(extractor, docling_out, pypdf_out)
         IN  IF r.ok
             THEN [ok |-> TRUE, text |-> str_prefix(r.text, max_chars),
                   err |-> NoExc, cache |-> CacheFile(r.text),
                   docling_called |-> r.docling_called,
                   pypdf_called |-> r.pypdf_called]
             ELSE [ok |-> FALSE, text |-> <<>>, err |-> r.err,
                   cache |-> CacheFile(<<>>),
                   docling_called |-> r.docling_called,
                   pypdf_called |-> r.pypdf_called]

parse_pdf_caching_truncated(sidecar, max_chars, reparse, extractor, docling_out, pypdf_out) ==
    IF ~reparse /\ sidecar.exists /\ Len(sidecar.content) > 0
    THEN [ok |-> TRUE, text |-> str_prefix(sidecar.content, max_chars),
          err |-> NoExc, cache |-> sidecar,
          docling_called |-> FALSE, pypdf_called |-> FALSE]
    ELSE LET r == _extract_text(extractor, docling_out, pypdf_out)
         IN  IF r.ok
             THEN [ok |-> TRUE, text |-> str_prefix(r.text, max_chars),
                   err |-> NoExc,
                   cache |-> CacheFile(str_prefix(r.text, max_chars)),
                   docling_called |-> r.docling_called,
                   pypdf_called |-> r.pypdf_called]
             ELSE [ok |-> FALSE, text |-> <<>>, err |-> r.err, cache |-> sidecar,
                   docling_called |-> r.docling_called,
                   pypdf_called |-> r.pypdf_called]

parse_pdf_hit_untruncated(sidecar, max_chars, reparse, extractor, docling_out, pypdf_out) ==
    IF ~reparse /\ sidecar.exists /\ Len(sidecar.content) > 0
    THEN [ok |-> TRUE, text |-> sidecar.content,
          err |-> NoExc, cache |-> sidecar,
          docling_called |-> FALSE, pypdf_called |-> FALSE]
    ELSE LET r == _extract_text(extractor, docling_out, pypdf_out)
         IN  IF r.ok
             THEN [ok |-> TRUE, text |-> str_prefix(r.text, max_chars),
                   err |-> NoExc, cache |-> CacheFile(r.text),
                   docling_called |-> r.docling_called,
                   pypdf_called |-> r.pypdf_called]
             ELSE [ok |-> FALSE, text |-> <<>>, err |-> r.err, cache |-> sidecar,
                   docling_called |-> r.docling_called,
                   pypdf_called |-> r.pypdf_called]

\* parser.parse_pdf: [ok, text, err, cache, docling_called, pypdf_called],
\* cache being the sidecar after the call.
parse_pdf(sidecar, max_chars, reparse, extractor, docling_out, pypdf_out) ==
    IF ~reparse /\ sidecar.exists /\ Len(sidecar.content) > 0
    THEN [ok |-> TRUE, text |-> str_prefix(sidecar.content, max_chars),
          err |-> NoExc, cache |-> sidecar,
          docling_called |-> FALSE, pypdf_called |-> FALSE]
    ELSE LET r == _extract_text(extractor, docling_out, pypdf_out)
         IN  IF r.ok
             THEN [ok |-> TRUE, text |-> str_prefix(r.text, max_chars),
                   err |-> NoExc, cache |-> CacheFile(r.text),
                   docling_called |-> r.docling_called,
                   pypdf_called |-> r.pypdf_called]
             ELSE [ok |-> FALSE, text |-> <<>>, err |-> r.err, cache |-> sidecar,
                   docling_called |-> r.docling_called,
                   pypdf_called |-> r.pypdf_called]

(***************************************************************************)
(* Transient-retry policy (llm.py).  A failure of client.complete is an    *)
(* exception with optional attributes status_code, status and code (each   *)
(* an int, or something that is not an int) and a message in which the     *)
(* patterns  Error code: ddd  and  status[ code]: ddd  may occur.           *)
(***************************************************************************)
_MAX_TRANSIENT_RETRIES_plus_one == 2 + 1
_MAX_SCHEMA_REPAIR_RETRIES_plus_one == 2 + 1

_MAX_TRANSIENT_RETRIES == 2
_MAX_SCHEMA_REPAIR_RETRIES == 2

NotInt == [isint |-> FALSE, n |-> 0]
Int_(n) == [isint |-> TRUE, n |-> n]
NoMatch == <<>>
Match(n) == <<n>>

NoStatus == [found |-> FALSE, code |-> 0]
Status(n) == [found |-> TRUE, code |-> n]

\* llm._extract_status_code
_extract_status_code(exc) ==
    IF exc.status_code.isint THEN Status(exc.status_code.n)
    ELSE IF exc.status.isint THEN Status(exc.status.n)
    ELSE IF exc.code.isint /\ 100 <= exc.code.n /\ exc.code.n <= 599
         THEN Status(exc.code.n)
    ELSE IF exc.msg_error_code # NoMatch THEN Status(exc.msg_error_code[1])
    ELSE IF exc.msg_status # NoMatch THEN Status(exc.msg_status[1])
    ELSE NoStatus

_is_retryable_any_4xx(exc) ==
    LET status_code == _extract_status_code(exc)
    IN  status_code.found /\ 400 <= status_code.code /\ status_code.code <= 599

\* llm._is_retryable_status_error
_is_retryable_status_error(exc) ==
    LET status_code == _extract_status_code(exc)
    IN  \/ status_code.found /\ status_code.code = 429
        \/ status_code.found /\ 500 <= status_code.code /\ status_code.code <= 599

_retry_delay_doubled(n) == 2 ^ n

\* llm._retry_delay_seconds
_retry_delay_seconds(n) == 2 ^ (n - 1)

(***************************************************************************)
(* Inputs of one process_pdf run                                           *)
(***************************************************************************)
\* What an engine may extract: nothing, or text.
DocTexts == {<<>>, <<"d", "d">>}

EngineFailure == [ok |-> FALSE, text |-> <<>>]
EngineOutcomes == {EngineFailure} \cup {[ok |-> TRUE, text |-> t] : t \in DocTexts}

Extractors == {"auto", "docling", "pypdf"}

Configs ==
    [extractor : Extractors, reparse : BOOLEAN, max_chars : {1},
     skill_data_dir_exists : BOOLEAN]

\* Doe - 2024.pdf
Docs == {[stem |-> <<"A", "a", "s", "-", "s", "y">>]}

Caches == {AbsentCache, CacheFile(<<"d", "d">>)}

\* What a failing client.complete raises.
CompletionErrors ==
    [status_code : {NotInt, Int_(404), Int_(429)},
     status : {NotInt, Int_(503)},
     code : {NotInt, Int_(1000)},
     msg_error_code : {NoMatch, Match(503)},
     msg_status : {NoMatch, Match(404)}]

\* What a succeeding client.complete returns.
ReplyChars == {"{", "}", "m"}
ReplyTexts == UNION {[1..l -> ReplyChars] : l \in 0..MaxReplyLen}

GoodMetadata ==
    [mapping |-> TRUE, citation_key |-> StrV(<<"a", "y", "a">>),
     title |-> StrV(<<"A", "a", "s", "A", "a">>),
     authors |-> <<<<"A", "a", "s", "A", "a">>>>, authors_is_list |-> TRUE,
     year |-> IntV(2024), rest_ok |-> TRUE, is_research_paper |-> TRUE,
     paper_type |-> "primary", rejection_reason |-> "null"]

NonResearchMetadata ==
    [GoodMetadata EXCEPT !.is_research_paper = FALSE, !.paper_type = "null",
                         !.rejection_reason = "text"]

Part1(type) == [paper_type |-> type, fields |-> type]

PrimaryPayload ==
    [metadata |-> GoodMetadata, part1 |-> Part1("primary"), part2 |-> "full"]

\* The payload of the reply {} : no key at all.
EmptyPayload ==
    [metadata |-> NotMapping,
     part1 |-> [paper_type |-> "missing", fields |-> "none"],
     part2 |-> "missing"]

\* The payloads a reply may carry in a pipeline run.
Payloads ==
    { PrimaryPayload,
      [PrimaryPayload EXCEPT !.part1.fields = "none"],
      [PrimaryPayload EXCEPT !.metadata.year = StrV(<<"a", "s", "a">>)],
      [PrimaryPayload EXCEPT !.metadata.citation_key = StrV(<<"a", "-", "a">>)],
      [PrimaryPayload EXCEPT !.metadata.citation_key = StrV(<<"a", "-", "a">>),
                             !.part1.fields = "none"],
      [metadata |-> NonResearchMetadata, part1 |-> Part1("non_research"),
       part2 |-> "null"],
      EmptyPayload }

\* The payloads json.loads may give for parsed object obj: the object with
\* no member is the empty payload.
PayloadsOf(obj) == IF obj = <<>> THEN {EmptyPayload} ELSE Payloads \ {EmptyPayload}

NoPayload == [metadata |-> NotMapping,
              part1 |-> [paper_type |-> "none", fields |-> "none"],
              part2 |-> "none"]

(***************************************************************************)
(* One process_pdf run (pipeline.py, llm.py)                               *)
(***************************************************************************)
NoOutcome == [kind |-> "none", summary |-> NoPayload, exc |-> NoExc]
Returned(summary) == [kind |-> "returned", summary |-> summary, exc |-> NoExc]
Raised(exc) == [kind |-> "raised", summary |-> NoPayload, exc |-> exc]

\* An entry of call_log.  n is, for a failed completion, the status code
\* _extract_status_code finds (0 when none); for a sleep, the delay; for a
\* returned completion, the attempt that returned.  braces tells which of
\* the two braces a returned text contains.
Event(ev, n, braces) == [ev |-> ev, n |-> n, braces |-> braces]

Braces(reply) ==
    IF Contains(reply, "{")
    THEN (IF Contains(reply, "}") THEN "both" ELSE "open only")
    ELSE (IF Contains(reply, "}") THEN "close only" ELSE "neither")

StatusOf(exc) ==
    LET status_code == _extract_status_code(exc)
    IN  IF status_code.found THEN status_code.code ELSE 0

\* The harnesses take no step in a process_pdf run.
DecodeIdle ==
    /\ dec_pc = "idle"
    /\ dec_text = <<>>
    /\ dec_out = DecodeError("not run")

NotValidated == [ok |-> FALSE, summary |-> NoPayload]

ValidateIdle ==
    /\ val_pc = "idle"
    /\ val_path = CHOOSE d \in Docs : TRUE
    /\ val_raw = NoPayload
    /\ val_out = NotValidated
    /\ val_again = NoPayload

NoCall ==
    [reparse |-> FALSE, max_chars |-> 0, extractor |-> "none",
     before |-> AbsentCache, runs |-> <<>>, ok |-> FALSE, text |-> <<>>,
     err |-> NoExc]

NothingExtracted == [some |-> FALSE, text |-> <<>>]

ParseIdle ==
    /\ prs_pc = "idle"
    /\ prs_cache = AbsentCache
    /\ prs_last = NoCall
    /\ prs_extracted = NothingExtracted

WorkersIdle ==
    /\ max_workers = 0
    /\ job_extractor = <<>>
    /\ job_pc = <<>>
    /\ docling_lock = 0

\* models.BatchReport
BatchReport(processed, skipped, failed, failed_papers) ==
    [processed |-> processed, skipped |-> skipped, failed |-> failed,
     failed_papers |-> failed_papers]

BatchIdle ==
    /\ bat_pc = "idle"
    /\ bat_config = [force_summary |-> FALSE, dry_run |-> FALSE,
                     source_exists |-> FALSE, pdfs |-> {},
                     index_at_start |-> {}]
    /\ index_file = {}
    /\ processed_set = {}
    /\ jobs = {}
    /\ futures = {}
    /\ bat_cur = 0
    /\ out_files = <<>>
    /\ report = BatchReport(0, 0, 0, <<>>)
    /\ exit_code = -1
    /\ bat_log = <<>>

Init ==
    /\ config \in Configs
    /\ pdf_path \in Docs
    /\ cache \in Caches
    /\ pc = "start"
    /\ stages = <<>>
    /\ engine_log = <<>>
    /\ paper_text = <<>>
    /\ attempt = 0
    /\ call_log = <<>>
    /\ parse_exc = NoExc
    /\ schema_attempt = 0
    /\ current = NoPayload
    /\ n_complete = 0
    /\ n_failed = 0
    /\ n_json_repair = 0
    /\ n_validate = 0
    /\ n_schema_repair = 0
    /\ outcome = NoOutcome
    /\ DecodeIdle
    /\ ValidateIdle
    /\ ParseIdle
    /\ WorkersIdle
    /\ BatchIdle

process_pdf_reraise(path, e) == e

\* process_pdf's handlers: a PipelineError passes, anything else is wrapped.
process_pdf_except(path, e) ==
    IF e.type = "PipelineError" THEN e ELSE PipelineError(path, e)

\* An exception e leaves _run_pipeline: process_pdf raises and the run ends.
Raise(e) ==
    /\ outcome' = Raised(process_pdf_except(pdf_path, e))
    /\ pc' = "done"
    /\ attempt' = 0
    /\ parse_exc' = NoExc
    /\ schema_attempt' = 0
    /\ current' = NoPayload

\* The engines parse_pdf ran, each with what the engine did.
EngineRuns(r, docling_out, pypdf_out) ==
    (IF r.docling_called THEN <<[engine |-> "docling", out |-> docling_out]>>
     ELSE <<>>)
    \o (IF r.pypdf_called THEN <<[engine |-> "pypdf", out |-> pypdf_out]>>
        ELSE <<>>)

\* _run_pipeline step 1: parse_pdf.
Extract ==
    /\ pc = "start"
    /\ \E docling_out \in EngineOutcomes, pypdf_out \in EngineOutcomes :
         LET r == parse_pdf(cache, config.max_chars, config.reparse,
                            config.extractor, docling_out, pypdf_out)
         IN  /\ cache' = r.cache
             /\ engine_log' = EngineRuns(r, docling_out, pypdf_out)
             /\ stages' = Append(stages, "Extract")
             /\ IF r.ok
                THEN /\ paper_text' = r.text
                     /\ pc' = "refs"
                     /\ UNCHANGED <<attempt, parse_exc, schema_attempt, current,
                                    outcome>>
                ELSE /\ Raise(r.err)
                     /\ UNCHANGED paper_text
    /\ UNCHANGED <<config, pdf_path, call_log, n_complete, n_failed,
                   n_json_repair, n_validate, n_schema_repair, harness_vars>>

\* _run_pipeline step 2: load_references, create_client, build_combined_prompt,
\* then call_llm enters _complete_with_retries.
BuildPrompt ==
    /\ pc = "refs"
    /\ stages' = Append(stages, "BuildPrompt")
    /\ IF ~config.skill_data_dir_exists
       THEN /\ Raise(Exc("FileNotFoundError", "References directory not found", "none"))
            /\ UNCHANGED call_log
       ELSE /\ pc' = "complete"
            /\ attempt' = 1
            /\ call_log' = <<>>
            /\ UNCHANGED <<parse_exc, schema_attempt, current, outcome>>
    /\ UNCHANGED <<config, pdf_path, cache, engine_log, paper_text, n_complete,
                   n_failed, n_json_repair, n_validate, n_schema_repair, harness_vars>>

\* call_llm returns payload to _run_pipeline or to the schema-repair loop,
\* whose next iteration starts.
ReturnPayload(payload) ==
    /\ current' = payload
    /\ schema_attempt' = schema_attempt + 1
    /\ pc' = "validate"
    /\ attempt' = 0
    /\ parse_exc' = NoExc
    /\ UNCHANGED outcome

CompleteFailsRaisingValidationError ==
    /\ pc = "complete"
    /\ \E exc \in CompletionErrors :
         LET attempts == _MAX_TRANSIENT_RETRIES + 1
             failed == Event("complete failed", StatusOf(exc), "none")
         IN  IF attempt >= attempts \/ ~_is_retryable_status_error(exc)
             THEN /\ Raise(IF n_schema_repair >= 1
                           THEN Exc("ValidationError", "validation failed",
                                    [attempt |-> schema_attempt])
                           ELSE Exc("LLMError", "LLM call failed",
                                    [call |-> n_complete + 1,
                                     status |-> StatusOf(exc)]))
                  /\ call_log' = Append(call_log, failed)
             ELSE /\ call_log' = call_log \o
                        <<failed, Event("sleep", _retry_delay_seconds(attempt), "none")>>
                  /\ attempt' = attempt + 1
                  /\ UNCHANGED <<pc, parse_exc, schema_attempt, current, outcome>>
    /\ n_complete' = n_complete + 1
    /\ n_failed' = n_failed + 1
    /\ stages' = IF attempt = 1 THEN Append(stages, "Complete") ELSE stages
    /\ UNCHANGED <<config, pdf_path, cache, engine_log, paper_text,
                   n_json_repair, n_validate, n_schema_repair, harness_vars>>

\* _complete_with_retries: client.complete raises exc.
CompleteFails ==
    /\ pc = "complete"
    /\ \E exc \in CompletionErrors :
         LET attempts == _MAX_TRANSIENT_RETRIES + 1
             failed == Event("complete failed", StatusOf(exc), "none")
         IN  IF attempt >= attempts \/ ~_is_retryable_status_error(exc)
             THEN /\ Raise(Exc("LLMError", "LLM call failed",
                               [call |-> n_complete + 1, status |-> StatusOf(exc)]))
                  /\ call_log' = Append(call_log, failed)
             ELSE /\ call_log' = call_log \o
                        <<failed, Event("sleep", _retry_delay_seconds(attempt), "none")>>
                  /\ attempt' = attempt + 1
                  /\ UNCHANGED <<pc, parse_exc, schema_attempt, current, outcome>>
    /\ n_complete' = n_complete + 1
    /\ n_failed' = n_failed + 1
    /\ stages' = IF attempt = 1 THEN Append(stages, "Complete") ELSE stages
    /\ UNCHANGED <<config, pdf_path, cache, engine_log, paper_text,
                   n_json_repair, n_validate, n_schema_repair, harness_vars>>

CompleteReturnsRaisingWithoutBraces ==
    /\ pc = "complete"
    /\ \E reply \in ReplyTexts :
         LET decoded == _extract_json(reply)
         IN  /\ call_log' = Append(call_log,
                    Event("complete returned", attempt, Braces(reply)))
             /\ IF decoded.ok
                THEN \E payload \in PayloadsOf(decoded.val) : ReturnPayload(payload)
                ELSE IF decoded.err = NoJsonFound
                THEN Raise(Exc("LLMError", decoded.err, [call |-> n_complete + 1]))
                ELSE /\ parse_exc' = Exc("LLMError", decoded.err,
                                         [call |-> n_complete + 1])
                     /\ pc' = "repair"
                     /\ UNCHANGED <<attempt, schema_attempt, current, outcome>>
    /\ n_complete' = n_complete + 1
    /\ stages' = (IF attempt = 1 THEN Append(stages, "Complete") ELSE stages)
                 \o <<"Decode">>
    /\ UNCHANGED <<config, pdf_path, cache, engine_log, paper_text, n_failed,
                   n_json_repair, n_validate, n_schema_repair, harness_vars>>

\* _complete_with_retries: client.complete returns reply; call_llm decodes it.
CompleteReturns ==
    /\ pc = "complete"
    /\ \E reply \in ReplyTexts :
         LET decoded == _extract_json(reply)
         IN  /\ call_log' = Append(call_log,
                    Event("complete returned", attempt, Braces(reply)))
             /\ IF decoded.ok
                THEN \E payload \in PayloadsOf(decoded.val) : ReturnPayload(payload)
                ELSE /\ parse_exc' = Exc("LLMError", decoded.err,
                                         [call |-> n_complete + 1])
                     /\ pc' = "repair"
                     /\ UNCHANGED <<attempt, schema_attempt, current, outcome>>
    /\ n_complete' = n_complete + 1
    /\ stages' = (IF attempt = 1 THEN Append(stages, "Complete") ELSE stages)
                 \o <<"Decode">>
    /\ UNCHANGED <<config, pdf_path, cache, engine_log, paper_text, n_failed,
                   n_json_repair, n_validate, n_schema_repair, harness_vars>>

RepairFailsRetrying ==
    /\ pc = "repair"
    /\ \E exc \in CompletionErrors :
         LET failed == Event("repair failed", StatusOf(exc), "none")
         IN  IF _is_retryable_status_error(exc)
                    /\ call_log[Len(call_log)].ev = "complete returned"
             THEN /\ call_log' = call_log \o
                        <<failed, Event("sleep", _retry_delay_seconds(1), "none")>>
                  /\ UNCHANGED <<pc, attempt, parse_exc, schema_attempt, current,
                                 outcome>>
             ELSE /\ Raise(parse_exc)
                  /\ call_log' = Append(call_log, failed)
    /\ n_complete' = n_complete + 1
    /\ n_json_repair' = n_json_repair + 1
    /\ UNCHANGED <<config, pdf_path, cache, stages, engine_log, paper_text,
                   n_failed, n_validate, n_schema_repair, harness_vars>>

\* call_llm: client.complete raises exc inside _repair_json_once; whatever
\* it raises is dropped and the first reply's error is raised.
RepairFails ==
    /\ pc = "repair"
    /\ \E exc \in CompletionErrors :
         call_log' = Append(call_log, Event("repair failed", StatusOf(exc), "none"))
    /\ Raise(parse_exc)
    /\ n_complete' = n_complete + 1
    /\ n_json_repair' = n_json_repair + 1
    /\ UNCHANGED <<config, pdf_path, cache, stages, engine_log, paper_text,
                   n_failed, n_validate, n_schema_repair, harness_vars>>

RepairReturnsRaisingRepairError ==
    /\ pc = "repair"
    /\ \E repaired \in ReplyTexts :
         LET decoded == _extract_json(repaired)
         IN  /\ call_log' = Append(call_log,
                    Event("repair returned", 0, Braces(repaired)))
             /\ IF decoded.ok
                THEN \E payload \in PayloadsOf(decoded.val) : ReturnPayload(payload)
                ELSE Raise(Exc("LLMError", decoded.err, [call |-> n_complete + 1]))
    /\ n_complete' = n_complete + 1
    /\ n_json_repair' = n_json_repair + 1
    /\ UNCHANGED <<config, pdf_path, cache, stages, engine_log, paper_text,
                   n_failed, n_validate, n_schema_repair, harness_vars>>

\* call_llm: _repair_json_once returns repaired, which is decoded.
RepairReturns ==
    /\ pc = "repair"
    /\ \E repaired \in ReplyTexts :
         LET decoded == _extract_json(repaired)
         IN  /\ call_log' = Append(call_log,
                    Event("repair returned", 0, Braces(repaired)))
             /\ IF decoded.ok
                THEN \E payload \in PayloadsOf(decoded.val) : ReturnPayload(payload)
                ELSE Raise(parse_exc)
    /\ n_complete' = n_complete + 1
    /\ n_json_repair' = n_json_repair + 1
    /\ UNCHANGED <<config, pdf_path, cache, stages, engine_log, paper_text,
                   n_failed, n_validate, n_schema_repair, harness_vars>>

Normalized_key_first(raw, path) ==
    _normalize_metadata_year(_normalize_citation_key(raw, path), path)

\* FieldNormalizer: year, then citation key.
Normalized(raw, path) ==
    _normalize_citation_key(_normalize_metadata_year(raw, path), path)

ValidateWithoutRepairCall ==
    /\ pc = "validate"
    /\ LET attempts == _MAX_SCHEMA_REPAIR_RETRIES + 1
           normal == Normalized(current, pdf_path)
       IN  IF LLMResponse(normal)
           THEN /\ outcome' = Returned(normal)
                /\ current' = normal
                /\ pc' = "done"
                /\ UNCHANGED <<attempt, call_log, parse_exc, schema_attempt,
                               n_schema_repair>>
           ELSE IF schema_attempt >= attempts
           THEN /\ Raise(Exc("ValidationError", "validation failed",
                             [attempt |-> schema_attempt]))
                /\ UNCHANGED <<call_log, n_schema_repair>>
           ELSE /\ current' = normal
                /\ schema_attempt' = schema_attempt + 1
                /\ UNCHANGED <<pc, attempt, call_log, parse_exc, outcome,
                               n_schema_repair>>
    /\ n_validate' = n_validate + 1
    /\ stages' = Append(stages, "Validate")
    /\ UNCHANGED <<config, pdf_path, cache, engine_log, paper_text, n_complete,
                   n_failed, n_json_repair, harness_vars>>

ValidateNormalizingFirstOnly ==
    /\ pc = "validate"
    /\ LET attempts == _MAX_SCHEMA_REPAIR_RETRIES + 1
           normal == IF schema_attempt = 1 THEN Normalized(current, pdf_path)
                     ELSE current
       IN  IF LLMResponse(normal)
           THEN /\ outcome' = Returned(normal)
                /\ current' = normal
                /\ pc' = "done"
                /\ UNCHANGED <<attempt, call_log, parse_exc, schema_attempt,
                               n_schema_repair>>
           ELSE IF schema_attempt >= attempts
           THEN /\ Raise(Exc("ValidationError", "validation failed",
                             [attempt |-> schema_attempt]))
                /\ UNCHANGED <<call_log, n_schema_repair>>
           ELSE /\ current' = normal
                /\ n_schema_repair' = n_schema_repair + 1
                /\ pc' = "complete"
                /\ attempt' = 1
                /\ call_log' = <<>>
                /\ UNCHANGED <<parse_exc, schema_attempt, outcome>>
    /\ n_validate' = n_validate + 1
    /\ stages' = Append(stages, "Validate")
    /\ UNCHANGED <<config, pdf_path, cache, engine_log, paper_text, n_complete,
                   n_failed, n_json_repair, harness_vars>>

\* _validate_with_schema_repair: one iteration of the loop, up to the
\* return, the raise or the entry into call_llm for the repair prompt.
Validate ==
    /\ pc = "validate"
    /\ LET attempts == _MAX_SCHEMA_REPAIR_RETRIES + 1
           normal == Normalized(current, pdf_path)
       IN  IF LLMResponse(normal)
           THEN /\ outcome' = Returned(normal)
                /\ current' = normal
                /\ pc' = "done"
                /\ UNCHANGED <<attempt, call_log, parse_exc, schema_attempt,
                               n_schema_repair>>
           ELSE IF schema_attempt >= attempts
           THEN /\ Raise(Exc("ValidationError", "validation failed",
                             [attempt |-> schema_attempt]))
                /\ UNCHANGED <<call_log, n_schema_repair>>
           ELSE /\ current' = normal
                /\ n_schema_repair' = n_schema_repair + 1
                /\ pc' = "complete"
                /\ attempt' = 1
                /\ call_log' = <<>>
                /\ UNCHANGED <<parse_exc, schema_attempt, outcome>>
    /\ n_validate' = n_validate + 1
    /\ stages' = Append(stages, "Validate")
    /\ UNCHANGED <<config, pdf_path, cache, engine_log, paper_text, n_complete,
                   n_failed, n_json_repair, harness_vars>>

Next ==
    \/ Extract
    \/ BuildPrompt
    \/ CompleteFails
    \/ CompleteReturns
    \/ RepairFails
    \/ RepairReturns
    \/ Validate

Spec == Init /\ [][Next]_vars

(***************************************************************************)
(* Decode harness: _extract_json applied to every text up to MaxTextLen    *)
(***************************************************************************)
\* No process_pdf run takes a step in a harness.
RunIdle ==
    /\ config = CHOOSE c \in Configs : TRUE
    /\ pdf_path = CHOOSE d \in Docs : TRUE
    /\ cache = AbsentCache
    /\ pc = "idle"
    /\ stages = <<>>
    /\ engine_log = <<>>
    /\ paper_text = <<>>
    /\ attempt = 0
    /\ call_log = <<>>
    /\ parse_exc = NoExc
    /\ schema_attempt = 0
    /\ current = NoPayload
    /\ n_complete = 0
    /\ n_failed = 0
    /\ n_json_repair = 0
    /\ n_validate = 0
    /\ n_schema_repair = 0
    /\ outcome = NoOutcome

DecodeInit ==
    /\ dec_pc = "input"
    /\ dec_text \in TextsUpTo(MaxTextLen)
    /\ dec_out = DecodeError("not run")
    /\ RunIdle
    /\ ValidateIdle
    /\ ParseIdle
    /\ WorkersIdle
    /\ BatchIdle

DecodeStep ==
    /\ dec_pc = "input"
    /\ dec_out' = _extract_json(dec_text)
    /\ dec_pc' = "done"
    /\ UNCHANGED <<dec_text, run_vars, val_vars, prs_vars, wrk_vars, bat_vars>>

DecodeNext == DecodeStep

SpecDecode == DecodeInit /\ [][DecodeNext]_vars

\* The ways of reading dec_text as lead \o body \o trail with body the
\* serialization of a JSON object.
Embeddings ==
    {ij \in (1..(Len(dec_text) + 1)) \X (0..Len(dec_text)) :
        json_loads(SubSeq(dec_text, ij[1], ij[2])).ok}

Lead(ij) == SubSeq(dec_text, 1, ij[1] - 1)
Body(ij) == SubSeq(dec_text, ij[1], ij[2])
Trail(ij) == SubSeq(dec_text, ij[2] + 1, Len(dec_text))

(***************************************************************************)
(* Validation harness: the normalizers and LLMResponse applied to payloads *)
(***************************************************************************)
\* Doe - 2024.pdf and 1-2.pdf
ValDocs == Docs \cup {[stem |-> <<"9", "-", "9">>]}

ValKeys ==
    {StrV(<<"a", "y", "a">>), StrV(<<"s", "a", "y", "s">>), StrV(<<"u">>),
     StrV(<<"A", "a">>), StrV(<<>>), StrV(<<"9", "a">>), StrV(<<"a", "-", "a">>),
     StrV(<<"a", "z">>), NoneV, IntV(2024)}

ValTitles ==
    {StrV(<<"A", "a", "s", "A", "a">>), StrV(<<"-">>), StrV(<<"z", "s", "a">>),
     StrV(<<>>), NoneV}

ValAuthors ==
    {[is_list |-> TRUE, names |-> <<<<"A", "a", "s", "A", "a">>>>],
     [is_list |-> TRUE, names |-> <<>>],
     [is_list |-> TRUE, names |-> <<<<"9", "A">>>>],
     [is_list |-> TRUE, names |-> <<<<"-">>>>],
     [is_list |-> FALSE, names |-> <<>>]}

ValYears ==
    {IntV(2024), IntV(0), StrV(<<"a", "s", "a">>), StrV(<<"z">>),
     StrV(<<"9", "y">>), NoneV}

\* Payloads that differ in the fields the normalizers read.
FieldPayloads ==
    {[base EXCEPT !.metadata.citation_key = k, !.metadata.title = t,
                  !.metadata.authors = a.names, !.metadata.authors_is_list = a.is_list,
                  !.metadata.year = y] :
        base \in {PrimaryPayload,
                  [metadata |-> NonResearchMetadata,
                   part1 |-> Part1("non_research"), part2 |-> "null"]},
        k \in ValKeys, t \in ValTitles, a \in ValAuthors, y \in ValYears}

\* Payloads that differ in the fields the research gate and the
\* consistency check read.
GatePayloads ==
    {[metadata |-> [GoodMetadata EXCEPT !.is_research_paper = r, !.paper_type = m,
                                        !.rejection_reason = j],
      part1 |-> [paper_type |-> d, fields |-> f],
      part2 |-> p2] :
        r \in BOOLEAN,
        m \in PaperType \cup {"null", "other"},
        j \in {"null", "empty", "text"},
        d \in Part1Types \cup {"missing"},
        f \in Part1Types \cup {"all", "none"},
        p2 \in {"null", "full", "partial"}}

ValPayloads ==
    FieldPayloads \cup GatePayloads
        \cup {EmptyPayload, [PrimaryPayload EXCEPT !.metadata.rest_ok = FALSE]}

ValidateInit ==
    /\ val_pc = "input"
    /\ val_path \in ValDocs
    /\ val_raw \in ValPayloads
    /\ val_out = NotValidated
    /\ val_again = NoPayload
    /\ RunIdle
    /\ DecodeIdle
    /\ ParseIdle
    /\ WorkersIdle
    /\ BatchIdle

\* One iteration of _validate_with_schema_repair up to the outcome of
\* LLMResponse(**current).
ValidateStep ==
    /\ val_pc = "input"
    /\ LET normal == Normalized(val_raw, val_path)
       IN  val_out' = [ok |-> LLMResponse(normal), summary |-> normal]
    /\ val_pc' = "done"
    /\ UNCHANGED <<val_path, val_raw, val_again, run_vars, dec_vars, prs_vars,
                   wrk_vars, bat_vars>>

\* The first two statements of the loop body once more, on the payload the
\* step above produced.
NormalizeAgain ==
    /\ val_pc = "done"
    /\ val_again' = Normalized(val_out.summary, val_path)
    /\ val_pc' = "again"
    /\ UNCHANGED <<val_path, val_raw, val_out, run_vars, dec_vars, prs_vars,
                   wrk_vars, bat_vars>>

ValidateNext == ValidateStep \/ NormalizeAgain

SpecValidate == ValidateInit /\ [][ValidateNext]_vars

(***************************************************************************)
(* Extraction harness: parse_pdf called on one document, twice, with any   *)
(* sidecar, budget, reparse flag, strategy and engine outcomes.            *)
(***************************************************************************)
DocChars == {"d", "s"}
PrsTexts == UNION {[1..n -> DocChars] : n \in 0..MaxDocLen}
PrsOutcomes == {EngineFailure} \cup {[ok |-> TRUE, text |-> t] : t \in PrsTexts}

\* The sidecar before the first call: absent, zero-byte, or any text.
PrsCaches == {AbsentCache} \cup {CacheFile(t) : t \in PrsTexts}

\* max_chars is any int (cli.py --max-chars, type=int, no range check).
Budgets == -1..MaxBudget

ParseInit ==
    /\ prs_pc = "first"
    /\ prs_cache \in PrsCaches
    /\ prs_last = NoCall
    /\ prs_extracted = NothingExtracted
    /\ RunIdle
    /\ DecodeIdle
    /\ ValidateIdle
    /\ WorkersIdle
    /\ BatchIdle

\* The outcomes an engine may have in a call: drawn only when the call
\* runs the engine.
OutcomesIf(called) == IF called THEN PrsOutcomes ELSE {EngineFailure}

\* One call parse_pdf(pdf_path, max_chars, reparse, extractor).
\* prs_extracted is the local variable text of the last call that reached
\* cache_path.write_text.
ParseCall ==
    /\ prs_pc \in {"first", "again"}
    /\ \E reparse \in BOOLEAN, max_chars \in Budgets, extractor \in Extractors :
         LET probe == parse_pdf(prs_cache, max_chars, reparse, extractor,
                                EngineFailure, EngineFailure)
         IN  \E docling_out \in OutcomesIf(probe.docling_called) :
               LET first == parse_pdf(prs_cache, max_chars, reparse, extractor,
                                      docling_out, EngineFailure)
               IN  \E pypdf_out \in OutcomesIf(first.pypdf_called) :
                     LET r == parse_pdf(prs_cache, max_chars, reparse, extractor,
                                        docling_out, pypdf_out)
                         hit == ~r.docling_called /\ ~r.pypdf_called
                     IN  /\ prs_cache' = r.cache
                         /\ prs_last' =
                              [reparse |-> reparse, max_chars |-> max_chars,
                               extractor |-> extractor, before |-> prs_cache,
                               runs |-> EngineRuns(r, docling_out, pypdf_out),
                               ok |-> r.ok, text |-> r.text, err |-> r.err]
                         /\ prs_extracted' =
                              IF r.ok /\ ~hit
                              THEN [some |-> TRUE,
                                    text |-> _extract_text(extractor, docling_out,
                                                           pypdf_out).text]
                              ELSE prs_extracted
    /\ prs_pc' = IF prs_pc = "first" THEN "again" ELSE "done"
    /\ UNCHANGED <<run_vars, dec_vars, val_vars, wrk_vars, bat_vars>>

ParseNext == ParseCall

SpecParse == ParseInit /\ [][ParseNext]_vars

(***************************************************************************)
(* Worker pool: run_batch submits the selected documents to a              *)
(* ThreadPoolExecutor; each job is one process_pdf call.  A job is at      *)
(*   queued       submitted, no thread has taken it yet                    *)
(*   parse_pdf    at the cache test of parse_pdf                           *)
(*   wait_lock    blocked at  with _DOCLING_LOCK                           *)
(*   docling      inside _run_docling, holding the lock                    *)
(*   exit_ok      docling returned, the with block not yet left            *)
(*   exit_err     docling raised, the with block not yet left              *)
(*   pypdf        inside _extract_text_with_pypdf                          *)
(*   write_cache  at cache_path.write_text                                 *)
(*   call_llm     in the rest of _run_pipeline                             *)
(*   done, failed process_pdf returned, raised                             *)
(***************************************************************************)
\* What no step of the pool changes.
pool_rest == <<run_vars, dec_vars, val_vars, prs_vars, bat_vars>>

Jobs == DOMAIN job_pc

Running == {k \in Jobs : job_pc[k] \notin {"queued", "done", "failed"}}

WorkersInit ==
    /\ max_workers \in 1..MaxWorkers
    /\ \E n \in 1..MaxJobs :
         /\ job_extractor \in [1..n -> Extractors]
         /\ job_pc = [j \in 1..n |-> "queued"]
    /\ docling_lock = 0
    /\ RunIdle
    /\ DecodeIdle
    /\ ValidateIdle
    /\ ParseIdle
    /\ BatchIdle

\* A free thread of the pool takes the next job of its queue.
StartJob(j) ==
    /\ j \in Jobs
    /\ job_pc[j] = "queued"
    /\ \A k \in Jobs : k < j => job_pc[k] # "queued"
    /\ Cardinality(Running) < max_workers
    /\ job_pc' = [job_pc EXCEPT ![j] = "parse_pdf"]
    /\ UNCHANGED <<max_workers, job_extractor, docling_lock, pool_rest>>

CacheTestDoclingUnlocked(j) ==
    /\ j \in Jobs
    /\ job_pc[j] = "parse_pdf"
    /\ \E hit \in BOOLEAN :
         job_pc' = [job_pc EXCEPT ![j] =
                      IF hit THEN "call_llm"
                      ELSE IF job_extractor[j] = "pypdf" THEN "pypdf"
                      ELSE IF job_extractor[j] = "docling" THEN "docling"
                      ELSE "wait_lock"]
    /\ UNCHANGED <<max_workers, job_extractor, docling_lock, pool_rest>>

\* parse_pdf: a cache hit returns; a miss enters _extract_text, which goes to
\* the lock for docling and auto and to pypdf for pypdf.
CacheTest(j) ==
    /\ j \in Jobs
    /\ job_pc[j] = "parse_pdf"
    /\ \E hit \in BOOLEAN :
         job_pc' = [job_pc EXCEPT ![j] =
                      IF hit THEN "call_llm"
                      ELSE IF job_extractor[j] = "pypdf" THEN "pypdf"
                      ELSE "wait_lock"]
    /\ UNCHANGED <<max_workers, job_extractor, docling_lock, pool_rest>>

\* with _DOCLING_LOCK: __enter__ returns once the lock is free.
AcquireLock(j) ==
    /\ j \in Jobs
    /\ job_pc[j] = "wait_lock"
    /\ docling_lock = 0
    /\ docling_lock' = j
    /\ job_pc' = [job_pc EXCEPT ![j] = "docling"]
    /\ UNCHANGED <<max_workers, job_extractor, pool_rest>>

\* _run_docling returns the markdown or raises ParseError.
DoclingEnds(j) ==
    /\ j \in Jobs
    /\ job_pc[j] = "docling"
    /\ \E ok \in BOOLEAN :
         job_pc' = [job_pc EXCEPT ![j] = IF ok THEN "exit_ok" ELSE "exit_err"]
    /\ UNCHANGED <<max_workers, job_extractor, docling_lock, pool_rest>>

ReleaseLockAfterFallback(j) ==
    /\ j \in Jobs
    /\ job_pc[j] \in {"exit_ok", "exit_err"}
    /\ docling_lock' = IF docling_lock = j
                          /\ ~(job_pc[j] = "exit_err" /\ job_extractor[j] = "auto")
                       THEN 0
                       ELSE docling_lock
    /\ job_pc' = [job_pc EXCEPT ![j] =
                    IF job_pc[j] = "exit_ok" THEN "write_cache"
                    ELSE IF job_extractor[j] = "auto" THEN "pypdf"
                    ELSE "failed"]
    /\ UNCHANGED <<max_workers, job_extractor, pool_rest>>

ReleaseLockOnReturnOnly(j) ==
    /\ j \in Jobs
    /\ job_pc[j] \in {"exit_ok", "exit_err"}
    /\ docling_lock' = IF docling_lock = j /\ job_pc[j] = "exit_ok" THEN 0
                       ELSE docling_lock
    /\ job_pc' = [job_pc EXCEPT ![j] =
                    IF job_pc[j] = "exit_ok" THEN "write_cache"
                    ELSE IF job_extractor[j] = "auto" THEN "pypdf"
                    ELSE "failed"]
    /\ UNCHANGED <<max_workers, job_extractor, pool_rest>>

\* with _DOCLING_LOCK: __exit__ releases the lock, on return and on raise;
\* after a raise auto goes on to pypdf and docling fails the document.
ReleaseLock(j) ==
    /\ j \in Jobs
    /\ job_pc[j] \in {"exit_ok", "exit_err"}
    /\ docling_lock' = IF docling_lock = j THEN 0 ELSE docling_lock
    /\ job_pc' = [job_pc EXCEPT ![j] =
                    IF job_pc[j] = "exit_ok" THEN "write_cache"
                    ELSE IF job_extractor[j] = "auto" THEN "pypdf"
                    ELSE "failed"]
    /\ UNCHANGED <<max_workers, job_extractor, pool_rest>>

\* _extract_text_with_pypdf returns text or raises ParseError.
PypdfEnds(j) ==
    /\ j \in Jobs
    /\ job_pc[j] = "pypdf"
    /\ \E ok \in BOOLEAN :
         job_pc' = [job_pc EXCEPT ![j] = IF ok THEN "write_cache" ELSE "failed"]
    /\ UNCHANGED <<max_workers, job_extractor, docling_lock, pool_rest>>

\* parse_pdf writes the sidecar and returns.
WriteCache(j) ==
    /\ j \in Jobs
    /\ job_pc[j] = "write_cache"
    /\ job_pc' = [job_pc EXCEPT ![j] = "call_llm"]
    /\ UNCHANGED <<max_workers, job_extractor, docling_lock, pool_rest>>

\* The rest of _run_pipeline: references, completion calls, validation.
PipelineEnds(j) ==
    /\ j \in Jobs
    /\ job_pc[j] = "call_llm"
    /\ \E ok \in BOOLEAN :
         job_pc' = [job_pc EXCEPT ![j] = IF ok THEN "done" ELSE "failed"]
    /\ UNCHANGED <<max_workers, job_extractor, docling_lock, pool_rest>>

JobStep(j) ==
    \/ StartJob(j)
    \/ CacheTest(j)
    \/ AcquireLock(j)
    \/ DoclingEnds(j)
    \/ ReleaseLock(j)
    \/ PypdfEnds(j)
    \/ WriteCache(j)
    \/ PipelineEnds(j)

WorkersNext == \E j \in 1..MaxJobs : JobStep(j)

SpecWorkers == WorkersInit /\ [][WorkersNext]_vars

\* Every thread that can take a step eventually takes one: the scheduler
\* runs each runnable thread, and every engine and completion call ends.
SpecWorkersFair ==
    SpecWorkers /\ \A j \in 1..MaxJobs : WF_vars(JobStep(j))

(***************************************************************************)
(* Batch command: cli._run_batch and batch.run_batch.  The main thread     *)
(* filters the documents, submits the selected ones and handles their      *)
(* futures one at a time in completion order.  processed.txt is read and   *)
(* written without error; writing a summary file may fail.                 *)
(***************************************************************************)
BatchEvent(ev, doc, mem, disk) == [ev |-> ev, doc |-> doc, mem |-> mem, disk |-> disk]

\* A file under output_dir: the path get_output_path gives for a category and
\* a citation key, with the version suffix it carries (1: none, 2: _v2, ...).
OutPath(target, version) == [target |-> target, version |-> version]

\* {output_dir}/{paper_type}/{citation_key}_summary.md for the categories and
\* keys the summaries of a run may carry.
Targets == {"primary/doe2024spiking_summary.md", "survey/doe2024spiking_summary.md"}

\* What earlier runs left under output_dir: nothing, or summaries of the
\* first target, with or without the unsuffixed one.
OutDirs ==
    {[q \in paths |-> 0] :
        paths \in SUBSET {OutPath("primary/doe2024spiking_summary.md", v) :
                             v \in {1, 2}}}

\* batch.get_versioned_output_path: the path itself when no file is there,
\* else the first of _v2, _v3, ... at which no file is.
get_versioned_output_path(target, files) ==
    IF OutPath(target, 1) \notin DOMAIN files THEN OutPath(target, 1)
    ELSE LET free == {v \in 2..(Cardinality(DOMAIN files) + 2) :
                         OutPath(target, v) \notin DOMAIN files}
         IN  OutPath(target, CHOOSE v \in free : \A u \in free : v <= u)

\* path.write_text(markdown) for the summary of document doc.
write_text(files, path, doc) ==
    [q \in DOMAIN files \cup {path} |-> IF q = path THEN doc ELSE files[q]]

\* A document of another source directory, which an earlier run may have
\* recorded in the same processed.txt.
OtherDoc == MaxPdfs + 1

\* find_pdfs gives documents 1..n; processed.txt holds what earlier runs
\* recorded, kept in index_at_start for reference.
BatchInit ==
    /\ bat_pc = "_run_batch"
    /\ \E n \in 0..MaxPdfs, force_summary \in BOOLEAN, dry_run \in BOOLEAN,
          source_exists \in BOOLEAN :
         \E recorded \in SUBSET (1..n \cup {OtherDoc}) :
             bat_config = [force_summary |-> force_summary, dry_run |-> dry_run,
                           source_exists |-> source_exists, pdfs |-> 1..n,
                           index_at_start |-> recorded]
    /\ index_file = bat_config.index_at_start
    /\ processed_set = {}
    /\ jobs = {}
    /\ futures = {}
    /\ bat_cur = 0
    /\ out_files \in OutDirs
    /\ report = BatchReport(0, 0, 0, <<>>)
    /\ exit_code = -1
    /\ bat_log = <<>>
    /\ RunIdle
    /\ DecodeIdle
    /\ ValidateIdle
    /\ ParseIdle
    /\ WorkersIdle

\* What no step of the batch changes.
batch_rest == <<run_vars, dec_vars, val_vars, prs_vars, wrk_vars>>

\* batch.should_skip
should_skip(pdf, processed, force_summary) ==
    IF force_summary THEN FALSE ELSE pdf \in processed

\* cli._run_batch: a missing source directory ends the command with status 1.
SourceMissing ==
    /\ bat_pc = "_run_batch"
    /\ ~bat_config.source_exists
    /\ exit_code' = 1
    /\ bat_pc' = "exited"
    /\ UNCHANGED <<out_files, bat_config, index_file, processed_set, jobs, futures, bat_cur,
                   report, bat_log, batch_rest>>

FilterWithoutDryRunReturn ==
    /\ bat_pc = "_run_batch"
    /\ bat_config.source_exists
    /\ LET selected == {d \in bat_config.pdfs :
                          ~should_skip(d, index_file, bat_config.force_summary)}
           n_skipped_by_index == Cardinality(bat_config.pdfs \ selected)
       IN  /\ jobs' = selected
           /\ processed_set' = index_file \ selected
           /\ report' = BatchReport(0, n_skipped_by_index
                                         + (IF bat_config.dry_run
                                            THEN Cardinality(selected) ELSE 0),
                                    0, <<>>)
           /\ futures' = selected
           /\ bat_pc' = "pool"
    /\ UNCHANGED <<out_files, bat_config, index_file, bat_cur, exit_code, bat_log,
                   batch_rest>>

\* run_batch up to the pool: load the index, skip the recorded documents,
\* discard the selected ones from the in-memory index; a dry run returns here,
\* counting the selected documents as skipped.
Filter ==
    /\ bat_pc = "_run_batch"
    /\ bat_config.source_exists
    /\ LET selected == {d \in bat_config.pdfs :
                          ~should_skip(d, index_file, bat_config.force_summary)}
           n_skipped_by_index == Cardinality(bat_config.pdfs \ selected)
       IN  /\ jobs' = selected
           /\ processed_set' = index_file \ selected
           /\ IF bat_config.dry_run
              THEN /\ report' = BatchReport(0, n_skipped_by_index
                                               + Cardinality(selected), 0, <<>>)
                   /\ futures' = {}
                   /\ bat_pc' = "report"
              ELSE /\ report' = BatchReport(0, n_skipped_by_index, 0, <<>>)
                   /\ futures' = selected
                   /\ bat_pc' = "pool"
    /\ UNCHANGED <<out_files, bat_config, index_file, bat_cur, exit_code, bat_log, batch_rest>>

\* as_completed yields the next finished future.
NextFuture ==
    /\ bat_pc = "pool"
    /\ \E d \in futures :
         /\ bat_cur' = d
         /\ futures' = futures \ {d}
    /\ bat_pc' = "result"
    /\ UNCHANGED <<out_files, bat_config, index_file, processed_set, jobs, report, exit_code,
                   bat_log, batch_rest>>

\* The two except clauses of run_batch: count the failure and itemize it.
Failed(ev) ==
    /\ report' = [report EXCEPT !.failed = @ + 1,
                                !.failed_papers = Append(@, bat_cur)]
    /\ bat_log' = Append(bat_log, BatchEvent(ev, bat_cur, {}, {}))
    /\ bat_cur' = 0
    /\ bat_pc' = "pool"
    /\ UNCHANGED <<index_file, processed_set>>

FutureResultAborting ==
    /\ bat_pc = "result"
    /\ \E res \in {"Result", "PipelineError", "Exception"} :
         IF res = "Result"
         THEN /\ bat_log' = Append(bat_log, BatchEvent("Result", bat_cur, {}, {}))
              /\ bat_pc' = "write"
              /\ UNCHANGED <<index_file, processed_set, bat_cur, report, futures>>
         ELSE /\ Failed(res)
              /\ futures' = {}
    /\ UNCHANGED <<out_files, bat_config, jobs, exit_code, batch_rest>>

\* future.result(): what _process_one_pdf returned or raised (PipelineError
\* from process_pdf, another exception from render_summary).
FutureResult ==
    /\ bat_pc = "result"
    /\ \E res \in {"Result", "PipelineError", "Exception"} :
         IF res = "Result"
         THEN /\ bat_log' = Append(bat_log, BatchEvent("Result", bat_cur, {}, {}))
              /\ bat_pc' = "write"
              /\ UNCHANGED <<index_file, processed_set, bat_cur, report>>
         ELSE Failed(res)
    /\ UNCHANGED <<out_files, bat_config, jobs, futures, exit_code, batch_rest>>

WriteSummaryThenAddAnyway ==
    /\ bat_pc = "write"
    /\ \E ok \in BOOLEAN, target \in Targets :
         LET output_path == get_versioned_output_path(target, out_files)
         IN  /\ bat_log' = Append(bat_log,
                                  BatchEvent(IF ok THEN "written" ELSE "write failed",
                                             bat_cur, {}, {}))
             /\ out_files' = IF ok THEN write_text(out_files, output_path, bat_cur)
                              ELSE out_files
             /\ bat_pc' = "add"
             /\ UNCHANGED <<index_file, processed_set, bat_cur, report>>
    /\ UNCHANGED <<bat_config, jobs, futures, exit_code, batch_rest>>

WriteSummaryUnversioned ==
    /\ bat_pc = "write"
    /\ \E ok \in BOOLEAN, target \in Targets :
         LET output_path == OutPath(target, 1)
         IN  IF ok
             THEN /\ out_files' = write_text(out_files, output_path, bat_cur)
                  /\ bat_log' = Append(bat_log,
                                       BatchEvent("written", bat_cur, {}, {}))
                  /\ bat_pc' = "add"
                  /\ UNCHANGED <<index_file, processed_set, bat_cur, report>>
             ELSE /\ Failed("write failed")
                  /\ UNCHANGED out_files
    /\ UNCHANGED <<bat_config, jobs, futures, exit_code, batch_rest>>

\* get_output_path, get_versioned_output_path and output_path.write_text
\* for the category and key of the summary: the summary file is written, or
\* an OSError is raised and no file is.
WriteSummary ==
    /\ bat_pc = "write"
    /\ \E ok \in BOOLEAN, target \in Targets :
         LET output_path == get_versioned_output_path(target, out_files)
         IN  IF ok
             THEN /\ out_files' = write_text(out_files, output_path, bat_cur)
                  /\ bat_log' = Append(bat_log,
                                       BatchEvent("written", bat_cur, {}, {}))
                  /\ bat_pc' = "add"
                  /\ UNCHANGED <<index_file, processed_set, bat_cur, report>>
             ELSE /\ Failed("write failed")
                  /\ UNCHANGED out_files
    /\ UNCHANGED <<bat_config, jobs, futures, exit_code, batch_rest>>

AddToIndexAppendingToFile ==
    /\ bat_pc = "add"
    /\ processed_set' = processed_set \cup {bat_cur}
    /\ index_file' = index_file \cup {bat_cur}
    /\ report' = [report EXCEPT !.processed = @ + 1]
    /\ bat_log' = Append(bat_log,
                         BatchEvent("added", bat_cur,
                                    processed_set' \ processed_set,
                                    index_file' \ index_file))
    /\ bat_cur' = 0
    /\ bat_pc' = "pool"
    /\ UNCHANGED <<out_files, bat_config, jobs, futures, exit_code, batch_rest>>

\* processed_set.add(abs_path); save_processed_index(...); n_processed += 1
AddToIndex ==
    /\ bat_pc = "add"
    /\ processed_set' = processed_set \cup {bat_cur}
    /\ index_file' = processed_set'
    /\ report' = [report EXCEPT !.processed = @ + 1]
    /\ bat_log' = Append(bat_log,
                         BatchEvent("added", bat_cur,
                                    processed_set' \ processed_set,
                                    index_file' \ index_file))
    /\ bat_cur' = 0
    /\ bat_pc' = "pool"
    /\ UNCHANGED <<out_files, bat_config, jobs, futures, exit_code, batch_rest>>

\* Every future is handled: run_batch returns its report.
ReturnReport ==
    /\ bat_pc = "pool"
    /\ futures = {}
    /\ bat_pc' = "report"
    /\ UNCHANGED <<out_files, bat_config, index_file, processed_set, jobs, futures, bat_cur,
                   report, exit_code, bat_log, batch_rest>>

\* cli._run_batch after run_batch: status 1 when report.failed_papers is
\* not empty, else the command ends normally.
Exit ==
    /\ bat_pc = "report"
    /\ exit_code' = IF report.failed_papers # <<>> THEN 1 ELSE 0
    /\ bat_pc' = "exited"
    /\ UNCHANGED <<out_files, bat_config, index_file, processed_set, jobs, futures, bat_cur,
                   report, bat_log, batch_rest>>

BatchNext ==
    \/ SourceMissing
    \/ Filter
    \/ NextFuture
    \/ FutureResult
    \/ WriteSummary
    \/ AddToIndex
    \/ ReturnReport
    \/ Exit

SpecBatch == BatchInit /\ [][BatchNext]_vars

(***************************************************************************)
(* Properties of _extract_json (SpecDecode)                                *)
(***************************************************************************)
\* Some opening brace of text stands before some closing brace of text.
HasBracePair(text) ==
    \E i \in 1..Len(text), j \in 1..Len(text) :
        i < j /\ text[i] = "{" /\ text[j] = "}"

\* C7, as stated: every text with no opening-then-closing brace pair, the
\* text whose only closing brace stands before its only opening brace
\* included, makes _extract_json raise the no-JSON-object-found error.
C7_NoPairRaisesNoJsonFound ==
    (dec_pc = "done" /\ ~HasBracePair(dec_text))
        => dec_out = DecodeError(NoJsonFound)

\* C7, amended: a text that lacks the opening brace or lacks the closing
\* brace makes _extract_json raise the no-JSON-object-found error; a text
\* that has both braces but no opening brace before a closing one makes it
\* raise the failed-to-parse error instead.
C7_MissingBraceRaisesNoJsonFound ==
    dec_pc = "done" =>
        /\ (~Contains(dec_text, "{") \/ ~Contains(dec_text, "}"))
               => dec_out = DecodeError(NoJsonFound)
        /\ (Contains(dec_text, "{") /\ Contains(dec_text, "}")
                /\ ~HasBracePair(dec_text))
               => dec_out = DecodeError(FailedToParse)

\* A text with one brace kind only has been decoded.
C7_Witness ==
    /\ dec_pc = "done"
    /\ dec_text = <<"p", "{", "m">>
    /\ dec_out = DecodeError(NoJsonFound)

\* C8, as stated: a JSON object embedded in any leading and trailing prose
\* is returned by _extract_json exactly, whatever the prose contains.
C8_EmbeddedObjectReturned ==
    dec_pc = "done" =>
        \A ij \in Embeddings : dec_out = Decoded(json_loads(Body(ij)).val)

\* C8, amended: a JSON object embedded in leading prose that has no opening
\* brace and trailing prose that has no closing brace is returned by
\* _extract_json exactly, and serializes back to the embedded text.
C8_EmbeddedObjectReturnedBraceFreeProse ==
    dec_pc = "done" =>
        \A ij \in Embeddings :
            (~Contains(Lead(ij), "{") /\ ~Contains(Trail(ij), "}"))
                => /\ dec_out = Decoded(json_loads(Body(ij)).val)
                   /\ json_dumps(dec_out.val) = Body(ij)

\* A fenced object followed by prose has been decoded.
C8_Witness ==
    /\ dec_pc = "done"
    /\ dec_text = <<"f", "{", "m", "}", "p">>
    /\ dec_out = Decoded(<<Leaf>>)

(***************************************************************************)
(* Properties of one process_pdf run (Spec)                                *)
(***************************************************************************)
IsCompletion(e) == e.ev \in {"complete failed", "complete returned"}
IsSleep(e) == e.ev = "sleep"
IsRepair(e) == e.ev \in {"repair failed", "repair returned"}
IsReply(e) == e.ev \in {"complete returned", "repair returned"}

\* The attempts, the sleeps, the repair requests and the replies of the
\* current call_llm invocation.
Completions == SelectSeq(call_log, IsCompletion)
Sleeps == SelectSeq(call_log, IsSleep)
Repairs == SelectSeq(call_log, IsRepair)
Replies == SelectSeq(call_log, IsReply)

Sleep(seconds) == Event("sleep", seconds, "none")
RetryableStatus(n) == n = 429 \/ (500 <= n /\ n <= 599)
RetryableFailure(e) == e.ev = "complete failed" /\ RetryableStatus(e.n)

RaisedWith(type) ==
    outcome.kind = "raised" /\ outcome.exc.type = "PipelineError"
        /\ outcome.exc.cause.type = type

\* C1: _validate_with_schema_repair validates at most 3 times and sends at
\* most 2 schema-repair requests; a failure at the third validation ends the
\* run with that validation error and no further repair request; when no
\* completion fails and no JSON repair is needed, a payload that stays
\* invalid costs exactly 3 completion calls.
C1_SchemaRepairBounded ==
    /\ n_validate <= 3
    /\ n_schema_repair <= 2
    /\ n_validate = 3 => pc = "done"
    /\ RaisedWith("ValidationError") =>
         /\ n_validate = 3
         /\ n_schema_repair = 2
         /\ outcome.exc.cause.cause = [attempt |-> 3]
         /\ (n_failed = 0 /\ n_json_repair = 0) => n_complete = 3

\* Three validations of replies that needed no retry and no JSON repair
\* all failed.
C1_Witness ==
    /\ RaisedWith("ValidationError")
    /\ n_validate = 3
    /\ n_complete = 3
    /\ n_failed = 0
    /\ n_json_repair = 0

\* C2: when the first two completion attempts fail with retryable statuses
\* and the third returns, the wrapper returns at the third attempt having
\* slept 1 then 2 seconds; the delay before retry n is 2^(n-1).
C2_ThirdAttemptReturns ==
    /\ \A n \in 1..Len(Sleeps) : Sleeps[n] = Sleep(2 ^ (n - 1))
    /\ LET c == Completions
       IN  (/\ Len(c) = 3
            /\ RetryableFailure(c[1])
            /\ RetryableFailure(c[2])
            /\ c[3].ev = "complete returned")
           => /\ c[3].n = 3
              /\ SubSeq(call_log, 1, 5) = <<c[1], Sleep(1), c[2], Sleep(2), c[3]>>
              /\ Sleeps = <<Sleep(1), Sleep(2)>>
              /\ pc # "complete"

\* Two rate-limited attempts, then a reply that decoded.
C2_Witness ==
    /\ pc = "validate"
    /\ call_log = <<Event("complete failed", 429, "none"), Sleep(1),
                    Event("complete failed", 503, "none"), Sleep(2),
                    Event("complete returned", 3, "both")>>

\* C3: three consecutive retryable failures end the call, after exactly 3
\* attempts, with the LLM error wrapping the last failure; there is no
\* fourth attempt and no sleep after the last failure, so at most 2 sleeps
\* per call.
C3_ThreeFailuresRaise ==
    /\ Len(Completions) <= 3
    /\ Len(Sleeps) <= 2
    /\ LET c == Completions
       IN  (/\ Len(c) = 3
            /\ \A n \in 1..3 : RetryableFailure(c[n]))
           => /\ pc = "done"
              /\ RaisedWith("LLMError")
              /\ outcome.exc.cause.msg = "LLM call failed"
              /\ outcome.exc.cause.cause = [call |-> n_complete, status |-> c[3].n]
              /\ call_log = <<c[1], Sleep(1), c[2], Sleep(2), c[3]>>

\* Three server errors in a row.
C3_Witness ==
    /\ pc = "done"
    /\ Len(Completions) = 3
    /\ \A n \in 1..3 : Completions[n] = Event("complete failed", 503, "none")

\* C4: a failed completion is retried only if it carries status 429 or a
\* 5xx status; any other failure, on any attempt, raises the LLM error at
\* once, with no sleep and no further attempt.
C4_OnlyRetryableRetried ==
    \A i \in 1..Len(call_log) :
        call_log[i].ev = "complete failed" =>
            /\ i < Len(call_log) => RetryableStatus(call_log[i].n)
            /\ ~RetryableStatus(call_log[i].n) =>
                 /\ i = Len(call_log)
                 /\ pc = "done"
                 /\ RaisedWith("LLMError")
                 /\ outcome.exc.cause.msg = "LLM call failed"
                 /\ outcome.exc.cause.cause.status = call_log[i].n

\* A failure without status on the second attempt.
C4_Witness ==
    /\ pc = "done"
    /\ call_log = <<Event("complete failed", 429, "none"), Sleep(1),
                    Event("complete failed", 0, "none")>>

\* The decode error of a reply that does not decode, by the braces it has.
ParseErrorOf(reply) == IF reply.braces = "both" THEN FailedToParse ELSE NoJsonFound

\* C5: a first reply that fails to decode gets exactly one JSON repair
\* request; if the repair reply fails to decode too, call_llm raises the
\* parse error of the first reply, never that of the repair reply, sends no
\* second repair request, and has made exactly 2 successful completion calls.
C5_OneJsonRepair ==
    /\ Len(Repairs) <= 1
    /\ pc = "repair" =>
         /\ Repairs = <<>>
         /\ call_log[Len(call_log)].ev = "complete returned"
         /\ parse_exc = Exc("LLMError", ParseErrorOf(call_log[Len(call_log)]),
                            [call |-> n_complete])
    /\ (RaisedWith("LLMError") /\ outcome.exc.cause.msg # "LLM call failed") =>
         /\ Len(Repairs) = 1
         /\ IsRepair(call_log[Len(call_log)])
         /\ call_log[Len(call_log) - 1].ev = "complete returned"
         /\ outcome.exc.cause =
                Exc("LLMError", ParseErrorOf(call_log[Len(call_log) - 1]),
                    [call |-> n_complete - 1])
    /\ (RaisedWith("LLMError") /\ call_log[Len(call_log)].ev = "repair returned") =>
         /\ outcome.exc.cause.cause = [call |-> n_complete - 1]
         /\ Len(Replies) = 2

\* A truncated first reply, then a repair reply without any brace.
C5_Witness ==
    /\ pc = "done"
    /\ call_log = <<Event("complete returned", 1, "open only"),
                    Event("repair returned", 0, "neither")>>
    /\ outcome.exc.cause.msg = NoJsonFound

\* C6, as stated: a reply that lacks the opening or the closing brace fails
\* to decode with the no-JSON-object-found error and no repair request is
\* sent for it.
C6_NoRepairWithoutBraces ==
    \A i \in 1..Len(call_log) :
        (IsReply(call_log[i]) /\ call_log[i].braces # "both") =>
            /\ pc # "repair"
            /\ \A j \in (i + 1)..Len(call_log) : ~IsRepair(call_log[j])

\* C6, amended: a reply that lacks the opening or the closing brace fails
\* to decode with the no-JSON-object-found error; when it is the first reply
\* of call_llm one repair request is still sent for it, and when it is the
\* repair reply none is sent and the call raises.
C6_RepairOnlyForFirstReply ==
    \A i \in 1..Len(call_log) :
        (IsReply(call_log[i]) /\ call_log[i].braces # "both") =>
            IF call_log[i].ev = "complete returned"
            THEN \/ /\ i = Len(call_log)
                    /\ pc = "repair"
                    /\ parse_exc.msg = NoJsonFound
                 \/ /\ i + 1 = Len(call_log)
                    /\ IsRepair(call_log[i + 1])
                    /\ RaisedWith("LLMError") => outcome.exc.cause.msg = NoJsonFound
            ELSE /\ i = Len(call_log)
                 /\ pc = "done"
                 /\ RaisedWith("LLMError")

\* A first reply without any brace was repaired into an object.
C6_Witness ==
    /\ pc = "validate"
    /\ call_log = <<Event("complete returned", 1, "neither"),
                    Event("repair returned", 0, "both")>>

\* C9: process_pdf ends in exactly one of two ways: it returns a validated
\* summary, or it raises one PipelineError that carries the document path
\* and the original cause, which is never itself a PipelineError.
C9_TwoOutcomes ==
    /\ pc = "done" <=> outcome.kind # "none"
    /\ outcome.kind \in {"none", "returned", "raised"}
    /\ outcome.kind = "returned" =>
         /\ LLMResponse(outcome.summary)
         /\ outcome.exc = NoExc
    /\ outcome.kind = "raised" =>
         /\ outcome.exc.type = "PipelineError"
         /\ outcome.exc.pdf_path = pdf_path
         /\ outcome.exc.cause.type \in
                {"ParseError", "FileNotFoundError", "LLMError", "ValidationError"}
         /\ outcome.summary = NoPayload

\* The references directory is missing.
C9_Witness ==
    /\ pc = "done"
    /\ outcome = Raised(PipelineError(pdf_path,
           Exc("FileNotFoundError", "References directory not found", "none")))

\* The stage at position i of a run.
StageAt(i) ==
    IF i = 1 THEN "Extract"
    ELSE IF i = 2 THEN "BuildPrompt"
    ELSE IF (i - 3) % 3 = 0 THEN "Complete"
    ELSE IF (i - 3) % 3 = 1 THEN "Decode"
    ELSE "Validate"

\* What an engine run means for extraction: pypdf succeeds only with text.
EngineSucceeded(run) ==
    run.out.ok /\ (run.engine = "pypdf" => run.out.text # <<>>)

\* C10: the stages run in the order Extract, BuildPrompt, Complete, Decode,
\* Normalize+Validate; no completion call is made unless extraction
\* succeeded; when both engines fail in auto mode the run ends in a
\* PipelineError wrapping the extraction error with no completion call.
C10_StageOrder ==
    /\ \A i \in 1..Len(stages) : stages[i] = StageAt(i)
    /\ n_complete > 0 =>
         /\ Len(stages) >= 3
         /\ engine_log = <<>> \/ EngineSucceeded(engine_log[Len(engine_log)])
    /\ (engine_log # <<>> /\ \A i \in 1..Len(engine_log) :
                                 ~EngineSucceeded(engine_log[i])) =>
         /\ pc = "done"
         /\ RaisedWith("ParseError")
         /\ n_complete = 0
         /\ stages = <<"Extract">>

\* Docling and the pypdf fallback both failed in auto mode.
C10_Witness ==
    /\ config.extractor = "auto"
    /\ Len(engine_log) = 2
    /\ ~engine_log[1].out.ok
    /\ ~engine_log[2].out.ok
    /\ RaisedWith("ParseError")
    /\ outcome.exc.cause.msg
         = "Failed to parse {pdf_path}: docling and pypdf fallback failed ({fallback_exc})"
    /\ n_complete = 0

\* C11: when no completion fails and no JSON repair is needed, every payload
\* validated cost exactly one completion call, so a run that returns made
\* 1 + k completion calls, k (0, 1 or 2) being the schema-invalid payloads
\* received before the valid one: 1 call for a valid first payload, 2 calls
\* for one schema-repair round trip.
C11_OneCompletionPerPayload ==
    (n_failed = 0 /\ n_json_repair = 0) =>
        /\ pc = "validate" => n_complete = n_validate + 1
        /\ (pc = "done" /\ n_validate > 0) => n_complete = n_validate
        /\ outcome.kind = "returned" =>
             /\ n_schema_repair \in 0..2
             /\ n_validate = n_schema_repair + 1
             /\ n_complete = 1 + n_schema_repair

\* One schema-repair round trip, then a valid payload.
C11_Witness ==
    /\ outcome.kind = "returned"
    /\ n_failed = 0
    /\ n_json_repair = 0
    /\ n_schema_repair = 1
    /\ n_complete = 2

(***************************************************************************)
(* Properties of the validated payload (SpecValidate)                      *)
(***************************************************************************)
\* C12: every accepted payload of a research paper has the same paper_type
\* in metadata and in part1; a payload with metadata paper_type primary and
\* part1 discriminator survey is rejected, and the valid primary payload,
\* whose discriminator is primary, is accepted.
C12_CategoryConsistent ==
    val_pc = "done" =>
        /\ (val_out.ok /\ val_out.summary.metadata.is_research_paper) =>
               val_out.summary.metadata.paper_type = val_out.summary.part1.paper_type
        /\ (val_raw.metadata.mapping /\ val_raw.metadata.paper_type = "primary"
                /\ val_raw.part1.paper_type = "survey") => ~val_out.ok
        /\ (/\ val_raw.metadata = GoodMetadata
            /\ val_raw.part1.paper_type = "primary"
            /\ val_raw.part1.fields \in {"primary", "all"}
            /\ val_raw.part2 = "full") => val_out.ok

\* A payload whose only defect is the discriminator survey is rejected.
C12_Witness ==
    /\ val_pc = "done"
    /\ val_raw = [metadata |-> GoodMetadata,
                  part1 |-> [paper_type |-> "survey", fields |-> "all"],
                  part2 |-> "full"]
    /\ ~val_out.ok

\* C13: in every accepted payload part2 is non-null exactly when metadata
\* paper_type is primary; a primary payload with part2 null is rejected.
C13_Part2IffPrimary ==
    val_pc = "done" =>
        /\ val_out.ok =>
               (val_out.summary.part2 # "null"
                    <=> val_out.summary.metadata.paper_type = "primary")
        /\ (val_raw.metadata.mapping /\ val_raw.metadata.paper_type = "primary"
                /\ val_raw.part2 = "null") => ~val_out.ok

\* A survey payload with part2 null is accepted.
C13_Witness ==
    /\ val_pc = "done"
    /\ val_out.ok
    /\ val_out.summary.metadata.paper_type = "survey"
    /\ val_out.summary.part2 = "null"

\* C14: a payload with is_research_paper false is accepted only with
\* metadata paper_type null, a rejection reason, part1 discriminator
\* non_research and part2 null; one with is_research_paper true only with a
\* paper_type and no rejection reason; so an accepted payload has a
\* rejection reason exactly when is_research_paper is false.
C14_ResearchGate ==
    (val_pc = "done" /\ val_out.ok) =>
        LET m == val_out.summary.metadata
        IN  /\ ~m.is_research_paper =>
                 /\ m.paper_type = "null"
                 /\ m.rejection_reason # "null"
                 /\ val_out.summary.part1.paper_type = "non_research"
                 /\ val_out.summary.part2 = "null"
            /\ m.is_research_paper =>
                 /\ m.paper_type # "null"
                 /\ m.rejection_reason = "null"
            /\ m.rejection_reason # "null" <=> ~m.is_research_paper

\* A rejected document is accepted with its rejection reason.
C14_Witness ==
    /\ val_pc = "done"
    /\ val_out.ok
    /\ ~val_out.summary.metadata.is_research_paper
    /\ val_out.summary.metadata.rejection_reason = "text"

\* The strict pattern ^[a-z][a-z0-9]*$ on the value itself.
KeyMatchesPattern(value) ==
    /\ value.t = "str"
    /\ value.s # <<>>
    /\ value.s[1] \in {"a", "u", "w"}
    /\ \A i \in 1..Len(value.s) : value.s[i] \in {"a", "u", "w", "9", "y", "z"}

\* C15: in every accepted payload the citation key matches the strict
\* pattern ^[a-z][a-z0-9]*$, with no surrounding whitespace, whether the key
\* is the one received or the one the normalizer built.
C15_KeyMatchesPattern ==
    (val_pc = "done" /\ val_out.ok) =>
        KeyMatchesPattern(val_out.summary.metadata.citation_key)

\* C16: in every accepted payload metadata.year is an integer; whenever the
\* metadata is a mapping the normalizer leaves an integer year as it is and
\* replaces any other year by an integer before validation.
C16_YearIsInteger ==
    val_pc = "done" =>
        /\ val_out.ok => val_out.summary.metadata.year.t = "int"
        /\ val_raw.metadata.mapping =>
             /\ val_out.summary.metadata.year.t = "int"
             /\ val_raw.metadata.year.t = "int" =>
                    val_out.summary.metadata.year = val_raw.metadata.year

\* A placeholder year with no year in title, file name or key became 0.
C16_Witness ==
    /\ val_pc = "done"
    /\ val_out.ok
    /\ val_raw.metadata.year = StrV(<<"a", "s", "a">>)
    /\ val_out.summary.metadata.year = IntV(0)

(***************************************************************************)
(* Properties of parse_pdf (SpecParse)                                     *)
(***************************************************************************)
Called == prs_pc \in {"again", "done"}

\* The last call found no usable sidecar: reparse, or no file, or zero size.
CacheMiss ==
    \/ prs_last.reparse
    \/ ~prs_last.before.exists
    \/ Len(prs_last.before.content) = 0

Min(a, b) == IF a < b THEN a ELSE b

IsPrefixOf(text, full) ==
    /\ Len(text) <= Len(full)
    /\ text = SubSeq(full, 1, Len(text))

ZeroByteBefore ==
    /\ Called
    /\ ~prs_last.reparse
    /\ prs_last.before = CacheFile(<<>>)

\* The engine run that gave the last call its text.
SucceedingRun == prs_last.runs[Len(prs_last.runs)]

\* C18 as stated: a zero-byte sidecar is a miss: parse_pdf runs a fresh
\* extraction and, when it succeeds, the sidecar has non-empty content, for
\* every strategy and every text the succeeding engine returns.
C18_ZeroByteOverwrittenNonEmpty ==
    ZeroByteBefore =>
        /\ prs_last.runs # <<>>
        /\ prs_last.ok => (prs_cache.exists /\ Len(prs_cache.content) > 0)

\* C18 amended: a zero-byte sidecar is a miss: parse_pdf runs a fresh
\* extraction and, when it succeeds, the sidecar holds the whole text the
\* succeeding engine returned.  That content is empty exactly when the
\* succeeding engine is docling and its markdown is empty; whenever pypdf
\* succeeds, or docling returns some text, the content is non-empty.
C18_ZeroByteOverwritten ==
    ZeroByteBefore =>
        /\ prs_last.runs # <<>>
        /\ prs_last.ok =>
             /\ prs_cache.exists
             /\ SucceedingRun.out.ok
             /\ SucceedingRun.engine = "docling" =>
                  prs_cache.content = SucceedingRun.out.text
             /\ SucceedingRun.engine = "pypdf" =>
                  prs_cache.content = str_strip(SucceedingRun.out.text)
             /\ (Len(prs_cache.content) = 0) <=>
                  (SucceedingRun.engine = "docling" /\ SucceedingRun.out.text = <<>>)

\* A zero-byte sidecar replaced by the text of the fallback engine.
C18_Witness ==
    /\ ZeroByteBefore
    /\ prs_last.extractor = "auto"
    /\ prs_last.ok
    /\ Len(prs_last.runs) = 2
    /\ prs_last.runs[2].out.text = <<"s", "d">>
    /\ prs_cache = CacheFile(<<"d">>)

\* C19: a failed extraction never creates or overwrites the sidecar: whenever
\* parse_pdf raises, the sidecar is exactly as it was before the call: an
\* absent one stays absent, and under reparse a stale one keeps its content.
C19_FailureLeavesSidecar ==
    (Called /\ ~prs_last.ok) =>
        /\ prs_last.runs # <<>>
        /\ prs_cache = prs_last.before

\* A reparse whose engines both fail, over a stale sidecar.
C19_Witness ==
    /\ Called
    /\ ~prs_last.ok
    /\ prs_last.reparse
    /\ prs_last.extractor = "auto"
    /\ Len(prs_last.runs) = 2
    /\ prs_last.before = CacheFile(<<"d", "s">>)
    /\ prs_cache = CacheFile(<<"d", "s">>)

Max(a, b) == IF a > b THEN a ELSE b

\* The first n characters of text; none for n <= 0.
FirstChars(text, n) == SubSeq(text, 1, Max(0, Min(n, Len(text))))

\* The last call extracted afresh and succeeded.
FreshSuccess == Called /\ prs_last.ok /\ prs_last.runs # <<>>

\* The last call was a cache hit on a sidecar an earlier call wrote.
HitAfterFresh ==
    Called /\ prs_last.ok /\ prs_last.runs = <<>> /\ prs_extracted.some

\* After a successful fresh extraction the sidecar holds the whole extracted
\* text, whatever the budget was.
SidecarHoldsFullText ==
    FreshSuccess =>
        /\ prs_extracted.some
        /\ prs_cache = CacheFile(prs_extracted.text)
        /\ SucceedingRun.engine = "docling" =>
             prs_cache.content = SucceedingRun.out.text
        /\ SucceedingRun.engine = "pypdf" =>
             prs_cache.content = str_strip(SucceedingRun.out.text)

FullText ==
    IF prs_last.runs = <<>> THEN prs_last.before.content
    ELSE IF SucceedingRun.engine = "pypdf" THEN str_strip(SucceedingRun.out.text)
    ELSE SucceedingRun.out.text

AutoPrimaryFailed ==
    /\ Called
    /\ prs_last.extractor = "auto"
    /\ prs_last.runs # <<>>
    /\ ~prs_last.runs[1].out.ok

\* What the fallback engine gives: its page text, stripped.
FallbackText == str_strip(prs_last.runs[2].out.text)
FallbackSucceeded == prs_last.runs[2].out.ok /\ FallbackText # <<>>

\* C22: in the auto strategy a fresh extraction runs the primary engine first;
\* any failure of it makes the fallback engine run, and the fallback's text
\* is returned (cut to the budget) and cached.  If the fallback fails too,
\* parse_pdf raises a ParseError that names the document and has the primary
\* engine's underlying error as its cause, and no text is returned.
C22_AutoFallback ==
    /\ (Called /\ prs_last.extractor = "auto" /\ prs_last.runs # <<>>) =>
         prs_last.runs[1].engine = "docling"
    /\ AutoPrimaryFailed =>
         /\ Len(prs_last.runs) = 2
         /\ prs_last.runs[2].engine = "pypdf"
         /\ FallbackSucceeded =>
              /\ prs_last.ok
              /\ prs_last.err = NoExc
              /\ prs_cache = CacheFile(FallbackText)
              /\ IsPrefixOf(prs_last.text, FallbackText)
              /\ prs_last.max_chars >= Len(FallbackText) =>
                   prs_last.text = FallbackText
         /\ ~FallbackSucceeded =>
              /\ ~prs_last.ok
              /\ prs_last.text = <<>>
              /\ prs_last.err.type = "ParseError"
              /\ prs_last.err.msg
                   = "Failed to parse {pdf_path}: docling and pypdf fallback failed ({fallback_exc})"
              /\ prs_last.err.cause = "docling engine error"

\* Both engines fail in auto mode, the fallback with an error of its own.
C22_Witness ==
    /\ AutoPrimaryFailed
    /\ Len(prs_last.runs) = 2
    /\ ~prs_last.runs[2].out.ok
    /\ ~prs_last.ok
    /\ prs_last.err.cause = "docling engine error"

\* The last call extracted afresh with the one-engine strategy named.
FreshWith(strategy) ==
    Called /\ prs_last.extractor = strategy /\ prs_last.runs # <<>>

\* C23: with the docling strategy the fallback engine is never run and with
\* the pypdf strategy the primary engine is never run: the selected engine
\* runs once, and its failure is raised as it is, the other engine untried.
C23_NoCrossFallback ==
    /\ FreshWith("docling") =>
         /\ Len(prs_last.runs) = 1
         /\ prs_last.runs[1].engine = "docling"
         /\ ~prs_last.runs[1].out.ok =>
              /\ ~prs_last.ok
              /\ prs_last.err
                   = Exc("ParseError", "Failed to parse {pdf_path}: {e}",
                         "docling engine error")
    /\ FreshWith("pypdf") =>
         /\ Len(prs_last.runs) = 1
         /\ prs_last.runs[1].engine = "pypdf"
         /\ ~prs_last.runs[1].out.ok =>
              /\ ~prs_last.ok
              /\ prs_last.err
                   = Exc("ParseError",
                         "Failed to parse {pdf_path}: pypdf fallback error: {e}",
                         "pypdf engine error")

\* Docling alone fails over an absent sidecar.
C23_Witness ==
    /\ FreshWith("docling")
    /\ ~prs_last.runs[1].out.ok
    /\ ~prs_last.ok
    /\ prs_last.before = AbsentCache
    /\ prs_cache = AbsentCache

(***************************************************************************)
(* Properties of the worker pool (SpecWorkers, SpecWorkersFair)            *)
(***************************************************************************)
\* The jobs whose thread is executing the docling engine.
InDocling == {j \in Jobs : job_pc[j] = "docling"}

\* C24: however many workers run, at most one of them is executing the
\* docling engine at any moment, whether its job uses auto or docling: the
\* job executing the engine is the one holding _DOCLING_LOCK.
C24_OneDoclingAtATime ==
    /\ Cardinality(InDocling) <= 1
    /\ \A j \in InDocling :
         /\ docling_lock = j
         /\ job_extractor[j] \in {"auto", "docling"}

\* A docling-only job runs the engine while an auto job waits for the lock.
C24_Witness ==
    \E j, k \in Jobs :
        /\ job_pc[j] = "docling" /\ job_extractor[j] = "docling"
        /\ job_pc[k] = "wait_lock" /\ job_extractor[k] = "auto"

\* C25: the lock is released on every way out of an extraction: no job has
\* returned or raised while holding it, it is free whenever no job is inside
\* the with block, and, every docling call ending, a job waiting for the
\* lock eventually holds it.
C25_LockReleased ==
    /\ [](\A j \in Jobs : job_pc[j] \in {"done", "failed"} => docling_lock # j)
    /\ []((\A j \in Jobs : job_pc[j] \notin {"docling", "exit_ok", "exit_err"})
            => docling_lock = 0)
    /\ \A j \in 1..MaxJobs :
         (j \in Jobs /\ job_pc[j] = "wait_lock") ~> (j \in Jobs /\ docling_lock = j)

\* A job runs docling after a docling-only job raised in it and failed.
C25_Witness ==
    \E j, k \in Jobs :
        /\ job_pc[j] = "failed" /\ job_extractor[j] = "docling"
        /\ job_pc[k] = "docling" /\ docling_lock = k
        /\ max_workers = 2

\* The jobs inside a with _DOCLING_LOCK block.
InWithBlock == {j \in Jobs : job_pc[j] \in {"docling", "exit_ok", "exit_err"}}

\* C26: the lock guards the docling call only: a job running pypdf (the
\* fallback of auto included), writing the sidecar or making completion
\* calls does not hold it, so whenever no job is inside the with block the
\* lock is free for a waiting job.
C26_LockOnlyAroundDocling ==
    /\ \A j \in Jobs :
         job_pc[j] \in {"pypdf", "write_cache", "call_llm"} => docling_lock # j
    /\ docling_lock # 0 => docling_lock \in InWithBlock
    /\ \A k \in Jobs :
         (job_pc[k] = "wait_lock" /\ InWithBlock = {}) => ENABLED AcquireLock(k)

\* An auto job runs the pypdf fallback while another job runs docling.
C26_Witness ==
    \E j, k \in Jobs :
        /\ job_pc[j] = "pypdf" /\ job_extractor[j] = "auto"
        /\ job_pc[k] = "docling" /\ docling_lock = k

(***************************************************************************)
(* Properties of the batch command (SpecBatch)                             *)
(***************************************************************************)
\* run_batch has returned its report.
BatchReturned == bat_pc \in {"report", "exited"} /\ bat_config.source_exists

FailureEvents == {"PipelineError", "Exception", "write failed"}

\* The documents whose processing failed in this run.
FailedDocs ==
    {bat_log[i].doc : i \in {k \in 1..Len(bat_log) : bat_log[k].ev \in FailureEvents}}

\* The documents whose processing succeeded in this run.
ProcessedDocs ==
    {bat_log[i].doc : i \in {k \in 1..Len(bat_log) : bat_log[k].ev = "added"}}

\* C27: after run_batch returns, no document that failed in the run is
\* listed in processed.txt, whatever the configuration (force_summary on a
\* document an earlier run recorded included) and whatever the mix of
\* successes and failures; so a next run without force selects it again.
C27_FailedNotInIndex ==
    BatchReturned =>
        \A d \in FailedDocs :
            /\ d \notin index_file
            /\ ~should_skip(d, index_file, FALSE)

\* The positions of bat_log at which doc has an event of kind ev.
EventsOf(ev, doc) ==
    {k \in 1..Len(bat_log) : bat_log[k].ev = ev /\ bat_log[k].doc = doc}

Endings(doc) ==
    Cardinality({k \in 1..Len(bat_log) :
                   /\ bat_log[k].doc = doc
                   /\ bat_log[k].ev \in FailureEvents \cup {"added"}})

\* Every selected document ended exactly once, processed or failed, and the
\* report counts the processed ones and itemizes each failed one once.
EachJobEndsOnce ==
    /\ \A d \in jobs : Endings(d) = 1
    /\ ProcessedDocs \cup FailedDocs = jobs
    /\ ProcessedDocs \cap FailedDocs = {}
    /\ report.processed = Cardinality(ProcessedDocs)
    /\ report.failed = Cardinality(FailedDocs)
    /\ Len(report.failed_papers) = Cardinality(FailedDocs)
    /\ {report.failed_papers[k] : k \in 1..Len(report.failed_papers)} = FailedDocs

\* C29 as stated: a failing document never keeps the other selected
\* documents from being processed: every selected document ends exactly once
\* as processed or failed, the report itemizes each failed document once, and
\* the command exits non-zero if and only if some document failed.
C29_FailuresIsolated ==
    bat_pc = "exited" =>
        /\ EachJobEndsOnce
        /\ exit_code # 0 <=> FailedDocs # {}

\* C29 amended: in a run that is not a dry run, over an existing source
\* directory, every selected document ends exactly once as processed or
\* failed, the report itemizes each failed document once, and the command
\* exits non-zero if and only if some document failed.  A dry run ends no
\* document: it counts every document as skipped and exits zero.  A missing
\* source directory exits non-zero with no document selected.
C29_FailuresIsolatedInRealRun ==
    bat_pc = "exited" =>
        /\ (bat_config.source_exists /\ ~bat_config.dry_run) =>
             /\ EachJobEndsOnce
             /\ exit_code # 0 <=> FailedDocs # {}
        /\ (bat_config.source_exists /\ bat_config.dry_run) =>
             /\ bat_log = <<>>
             /\ report = BatchReport(0, Cardinality(bat_config.pdfs), 0, <<>>)
             /\ exit_code = 0
        /\ ~bat_config.source_exists =>
             /\ jobs = {}
             /\ bat_log = <<>>
             /\ exit_code = 1

\* The first document fails with a PipelineError, the second is processed.
C29_Witness ==
    /\ bat_pc = "exited"
    /\ Len(bat_log) = 4
    /\ bat_log[1].ev = "PipelineError"
    /\ bat_log[4].ev = "added"
    /\ bat_log[4].doc # bat_log[1].doc
    /\ report.processed = 1
    /\ report.failed_papers = <<bat_log[1].doc>>
    /\ exit_code = 1

(***************************************************************************)
(* Reference material (Spec)                                               *)
(***************************************************************************)
\* C30: a missing reference directory is raised before the document is
\* processed: when the directory does not exist no extraction engine is run,
\* no sidecar is written (parse_pdf writes it only after an engine run
\* succeeded), no completion call is made, and the run ends with the
\* FileNotFoundError.
C30_MissingReferencesFirst ==
    ~config.skill_data_dir_exists =>
        /\ engine_log = <<>>
        /\ \A i \in 1..Len(engine_log) : ~EngineSucceeded(engine_log[i])
        /\ n_complete = 0
        /\ pc = "done" => RaisedWith("FileNotFoundError")

(***************************************************************************)
(* Properties of the field normalizers (SpecValidate)                      *)
(***************************************************************************)
\* The places searched for a year, in the order the claim gives.
YearSources ==
    <<val_raw.metadata.year, val_raw.metadata.title, StrV(path_name(val_path)),
      val_raw.metadata.citation_key>>

\* A 19xx/20xx group with no digit before or after it stands in str at i.
YearAt(str, i) ==
    /\ i \in 1..Len(str)
    /\ IsYearTok(str[i])
    /\ i > 1 => ~IsDigitTok(str[i - 1])
    /\ i < Len(str) => ~IsDigitTok(str[i + 1])

HasYear(value) == value.t = "str" /\ \E i \in 1..Len(value.s) : YearAt(value.s, i)

\* The leftmost such group of a value that has one.
LeftmostYear(value) ==
    LET i == CHOOSE k \in 1..Len(value.s) :
                 YearAt(value.s, k) /\ \A m \in 1..(k - 1) : ~YearAt(value.s, m)
    IN  YearOfTok(value.s[i])

\* C31: when the metadata is a mapping and its year is not an integer, the
\* normalized year is the first 19xx/20xx value found in, in this order, the
\* year's own string, the title, the file name, the citation key: a source is
\* used only when no earlier one has a match, and the year is 0 when none
\* has.  An integer year is left unchanged.
C31_YearSearchOrder ==
    (val_pc = "done" /\ val_raw.metadata.mapping) =>
        LET year == val_out.summary.metadata.year
        IN  IF val_raw.metadata.year.t = "int"
            THEN year = val_raw.metadata.year
            ELSE /\ year.t = "int"
                 /\ \A k \in 1..4 :
                        (HasYear(YearSources[k])
                            /\ \A m \in 1..(k - 1) : ~HasYear(YearSources[m]))
                        => year.n = LeftmostYear(YearSources[k])
                 /\ (\A k \in 1..4 : ~HasYear(YearSources[k])) => year.n = 0

\* Year "not reported", title without a year, file name Doe - 2024.pdf, and
\* a key holding 1999: the file name wins over the key.
C31_Witness ==
    /\ val_pc = "done"
    /\ val_raw.metadata.year = StrV(<<"a", "s", "a">>)
    /\ val_raw.metadata.title = StrV(<<"A", "a", "s", "A", "a">>)
    /\ val_path = [stem |-> <<"A", "a", "s", "-", "s", "y">>]
    /\ val_raw.metadata.citation_key = StrV(<<"a", "z">>)
    /\ val_out.summary.metadata.year = IntV(2024)

\* The key the claim describes for an invalid one: author token, year and
\* title token, the title token taken from the file stem whenever the title
\* yields none, paper only when both yield none.
AuthorToken ==
    LET metadata == val_raw.metadata
    IN  IF metadata.authors_is_list /\ metadata.authors # <<>>
        THEN OrPaper(_author_surname_token(metadata.authors[1]))
        ELSE <<"w">>

TitleToken ==
    LET title == val_raw.metadata.title
        from_title == IF title.t = "str" THEN _first_alnum_token(title.s) ELSE <<>>
    IN  IF from_title # <<>> THEN from_title
        ELSE OrPaper(_first_alnum_token(val_path.stem))

\* C32: an invalid citation key is replaced by lowercase
\* {authorToken}{year}{titleToken}, where titleToken is the first alphabetic
\* token of the title, else (also for a missing or empty title) the first
\* alphabetic token of the file stem, else paper; a valid key is unchanged.
C32_KeySynthesis ==
    (val_pc = "done" /\ val_raw.metadata.mapping) =>
        LET year == val_out.summary.metadata.year.n
        IN  val_out.summary.metadata.citation_key =
                IF _is_valid_citation_key(val_raw.metadata.citation_key)
                THEN val_raw.metadata.citation_key
                ELSE StrV(str_lower(AuthorToken \o int_str(year) \o TitleToken))

\* C33: the field normalizers are idempotent: for every payload and document,
\* running year normalization and then key normalization on a payload they
\* have already normalized leaves it exactly as it was.
C33_NormalizerIdempotent ==
    val_pc = "again" => val_again = val_out.summary

\* The first pass replaced a placeholder year and an invalid key; the key it
\* built starts with a digit, so the second pass builds it again, and builds
\* the same key.
C33_Witness ==
    /\ val_pc = "again"
    /\ val_raw.metadata.year = StrV(<<"z">>)
    /\ val_raw.metadata.citation_key = StrV(<<"a", "-", "a">>)
    /\ val_raw.metadata.authors = <<<<"9", "A">>>>
    /\ val_out.summary.metadata.year = IntV(1999)
    /\ val_out.summary.metadata.citation_key # val_raw.metadata.citation_key
    /\ ~_is_valid_citation_key(val_out.summary.metadata.citation_key)
    /\ val_again = val_out.summary

(***************************************************************************)
(* Normalization inside the schema-repair loop (Spec)                      *)
(***************************************************************************)
\* C34: the field normalizers run before every schema-validation attempt,
\* the attempts that follow a schema-repair reply included: at every step
\* that constructs LLMResponse, the payload judged is the normalized form of
\* the payload call_llm returned (so the step returns exactly when the
\* normalized payload is valid, and returns that payload), and the payload
\* handed to the repair prompt as bad_response is the normalized one.
C34_NormalizedBeforeValidation ==
    [][n_validate' # n_validate =>
        LET normal == Normalized(current, pdf_path)
        IN  /\ outcome'.kind = "returned" <=> LLMResponse(normal)
            /\ outcome'.kind = "returned" => outcome'.summary = normal
            /\ n_schema_repair' # n_schema_repair => current' = normal]_vars

\* Two repair prompts were sent, the second for a reply whose key the
\* normalizer had to rebuild: current is that reply, normalized.
C34_Witness ==
    /\ n_schema_repair = 2
    /\ pc = "complete"
    /\ ~LLMResponse(current)
    /\ current.metadata.citation_key = StrV(<<"a", "a", "y", "a", "a">>)

(***************************************************************************)
(* Summary files and counters of the batch (SpecBatch)                     *)
(***************************************************************************)
\* The documents whose summary file was written in this run.
WrittenDocs == {bat_log[i].doc : i \in {k \in 1..Len(bat_log) : bat_log[k].ev = "written"}}

FilesHolding(doc) == {q \in DOMAIN out_files : out_files[q] = doc}

\* C35: run_batch never overwrites a summary file.  No step changes or
\* removes a file that exists; a step that writes creates one file, for the
\* document being handled, at the target path when no file is there and
\* otherwise at the first _vN (N = 2, 3, ...) at which none is; so every
\* document whose summary was written has one file of its own, also when two
\* documents of the batch have the same category and citation key.
C35_NeverOverwrites ==
    /\ [][\A q \in DOMAIN out_files :
              q \in DOMAIN out_files' /\ out_files'[q] = out_files[q]]_vars
    /\ [][out_files' # out_files =>
              \E q \in DOMAIN out_files' :
                  /\ DOMAIN out_files' = DOMAIN out_files \cup {q}
                  /\ q \notin DOMAIN out_files
                  /\ out_files'[q] = bat_cur
                  /\ \A v \in 2..(q.version - 1) :
                         OutPath(q.target, v) \in DOMAIN out_files
                  /\ q.version > 1 => OutPath(q.target, 1) \in DOMAIN out_files]_vars
    /\ [](\A d \in WrittenDocs : Cardinality(FilesHolding(d)) = 1)

\* An earlier run left the unsuffixed summary; two documents of this batch
\* got the same category and key and were written to _v2 and _v3.
C35_Witness ==
    /\ bat_pc = "exited"
    /\ LET target == "primary/doe2024spiking_summary.md"
       IN  /\ DOMAIN out_files = {OutPath(target, 1), OutPath(target, 2), OutPath(target, 3)}
           /\ out_files[OutPath(target, 1)] = 0
           /\ {out_files[OutPath(target, 2)], out_files[OutPath(target, 3)]} = {1, 2}

\* C36: with dry_run set, run_batch never calls process_pdf (no document is
\* submitted to the pool and no future is handled), writes no summary file
\* and leaves processed.txt as it is; every discovered PDF is counted as
\* skipped and none as processed or failed.
C36_DryRunChangesNothing ==
    /\ [](bat_config.dry_run =>
            /\ futures = {}
            /\ bat_cur = 0
            /\ bat_log = <<>>
            /\ bat_pc \notin {"pool", "result", "write", "add"})
    /\ [][bat_config.dry_run =>
            (index_file' = index_file /\ out_files' = out_files)]_vars
    /\ []((bat_config.dry_run /\ bat_config.source_exists
                /\ bat_pc \in {"report", "exited"}) =>
            report = BatchReport(0, Cardinality(bat_config.pdfs), 0, <<>>))

\* A dry run with force_summary over two documents, one of them recorded:
\* both are counted as skipped, the index still lists the one.
C36_Witness ==
    /\ bat_pc = "exited"
    /\ bat_config.dry_run
    /\ bat_config.force_summary
    /\ bat_config.pdfs = {1, 2}
    /\ jobs = {1, 2}
    /\ index_file = {1}
    /\ report.skipped = 2
    /\ exit_code = 0

(***************************************************************************)
(* Cost and termination of one run (Spec)                                  *)
(***************************************************************************)
\* The steps a run may still take, at most: the steps left in the current
\* call_llm invocation and its validation (3 attempts, 1 syntax repair,
\* 1 validation), and 5 for every schema-repair round not yet begun.
StepsLeft ==
    LET rounds_left == 3 - (n_schema_repair + 1)
    IN  CASE pc = "start" -> 17
          [] pc = "refs" -> 16
          [] pc = "complete" -> 5 * rounds_left + (3 - attempt) + 3
          [] pc = "repair" -> 5 * rounds_left + 2
          [] pc = "validate" -> 5 * rounds_left + 1
          [] OTHER -> 0

\* C37: whatever the backend fails with or replies, one process_pdf run
\* issues at most 12 completion requests, 3 call_llm invocations of at most
\* 3 transient attempts plus 1 syntax-repair request each, and then ends in
\* a Result or a PipelineError, provided every completion call returns or
\* fails: every step lowers a bound on the steps left; a run that has not
\* ended is at a step that can be taken (at a completion call both a reply
\* and a failure are possible; the validation step always returns, raises
\* or asks for a repair); and a run that has ended has returned a Result or
\* raised a PipelineError.
C37_BoundedCompletions ==
    /\ [](/\ n_complete <= 12
          /\ n_schema_repair + 1 <= 3
          /\ Len(Completions) <= 3
          /\ Len(Repairs) <= 1
          /\ n_json_repair <= n_schema_repair + 1
          /\ n_complete - n_json_repair <= 3 * (n_schema_repair + 1))
    /\ [](StepsLeft >= 0)
    /\ [][StepsLeft' < StepsLeft]_vars
    /\ [](pc # "done" =>
            \/ pc = "start" /\ ENABLED Extract
            \/ pc = "refs" /\ ENABLED BuildPrompt
            \/ pc = "complete" /\ ENABLED CompleteFails /\ ENABLED CompleteReturns
            \/ pc = "repair" /\ ENABLED RepairFails /\ ENABLED RepairReturns
            \/ pc = "validate")
    /\ [](pc = "done" =>
            \/ outcome.kind = "returned"
            \/ outcome.kind = "raised" /\ outcome.exc.type = "PipelineError")

\* The dearest run: each of the three call_llm invocations made three
\* attempts and a syntax repair, and the third validation failed.
C37_Witness ==
    /\ pc = "done"
    /\ n_complete = 12
    /\ n_json_repair = 3
    /\ n_failed = 6
    /\ RaisedWith("ValidationError")

(***************************************************************************)
(* Failures inside the repair requests (Spec)                              *)
(***************************************************************************)
\* C38: the JSON syntax-repair request is one completion attempt outside the
\* retry wrapper: when it fails, whatever status the failure carries, 429 and
\* 5xx included, nothing follows it in the call (no retry, no backoff sleep)
\* and call_llm raises the parse error of the first reply.
C38_RepairRequestNotRetried ==
    \A i \in 1..Len(call_log) :
        call_log[i].ev = "repair failed" =>
            /\ i = Len(call_log)
            /\ Len(Repairs) = 1
            /\ i > 1 /\ call_log[i - 1].ev = "complete returned"
            /\ pc = "done"
            /\ RaisedWith("LLMError")
            /\ outcome.exc.cause =
                   Exc("LLMError", ParseErrorOf(call_log[i - 1]),
                       [call |-> n_complete - 1])

\* The repair request for an undecodable first reply was rate-limited.
C38_Witness ==
    /\ pc = "done"
    /\ call_log = <<Event("complete returned", 1, "both"),
                    Event("repair failed", 429, "none")>>
    /\ outcome.exc.cause.msg = FailedToParse

\* The step ends the current call_llm invocation with an LLMError: the last
\* attempt of the retry wrapper failed (no sleep follows it), the syntax-
\* repair request failed, or the run left call_llm for its end.
CallRaises ==
    \/ /\ call_log' # call_log
       /\ call_log' # <<>>
       /\ call_log'[Len(call_log')].ev \in {"complete failed", "repair failed"}
    \/ pc \in {"complete", "repair"} /\ pc' = "done"

\* C39: when call_llm fails for a schema-repair request, in its completion
\* or in the decoding of its reply, the schema-repair loop stops at once: no
\* further validation and no further repair request is made, and the run
\* fails with a PipelineError whose cause is the LLMError of that call, not
\* the validation error before it.
C39_RepairCallFailureEndsLoop ==
    [][(n_schema_repair >= 1 /\ CallRaises) =>
        /\ pc' = "done"
        /\ outcome'.kind = "raised"
        /\ outcome'.exc.type = "PipelineError"
        /\ outcome'.exc.cause.type = "LLMError"
        /\ outcome'.exc.cause.cause.call >
               n_complete' - Len(SelectSeq(call_log', IsCompletion))
                           - Len(SelectSeq(call_log', IsRepair))
        /\ n_validate' = n_validate
        /\ n_schema_repair' = n_schema_repair
        /\ n_validate' = n_schema_repair']_vars

\* The first schema-repair request failed with a status that is not retried:
\* one validation, one repair request, two completion calls.
C39_Witness ==
    /\ pc = "done"
    /\ n_schema_repair = 1
    /\ n_validate = 1
    /\ n_complete = 2
    /\ RaisedWith("LLMError")
    /\ call_log = <<Event("complete failed", 404, "none")>>

(***************************************************************************)
(* Counters and index of a whole batch (SpecBatch)                         *)
(***************************************************************************)
\* C40: when run_batch returns, in a normal and in a dry run and whatever
\* the order in which the futures complete, processed + skipped + failed is
\* the number of discovered documents and failed is the length of
\* failed_papers; and when at least one document succeeded, processed.txt
\* holds what it held at the start without the selected documents, together
\* with the documents that succeeded.
C40_CountersAndIndexAddUp ==
    BatchReturned =>
        LET itemized == {report.failed_papers[k] :
                            k \in 1..Len(report.failed_papers)}
            succeeded == IF bat_config.dry_run THEN {} ELSE jobs \ itemized
        IN  /\ report.processed + report.skipped + report.failed
                   = Cardinality(bat_config.pdfs)
            /\ report.failed = Len(report.failed_papers)
            /\ report.processed = Cardinality(succeeded)
            /\ succeeded # {} =>
                   index_file = (bat_config.index_at_start \ jobs) \cup succeeded

\* A forced run over two documents both recorded before, next to a document
\* of another directory: the second document failed first, then the first
\* one succeeded.
C40_Witness ==
    /\ bat_pc = "report"
    /\ bat_config.force_summary /\ ~bat_config.dry_run
    /\ bat_config.pdfs = {1, 2}
    /\ bat_config.index_at_start = {1, 2, OtherDoc}
    /\ report.failed_papers = <<2>>
    /\ report.processed = 1
    /\ index_file = {1, OtherDoc}

====
